---- MODULE Spec2Model ----
(***************************************************************************)
(* Abaqus ODB field-variable extraction (odbFieldVariableClasses.py).      *)
(*                                                                         *)
(* The output database (ODB) is a read-only archive: steps holding frames, *)
(* assembly level node and element sets, and per frame the raw samples of  *)
(* a field output.  A fieldVariable object (IntPtVariable, NodalVariable,  *)
(* ElementVariable) opens the archive, walks the steps and frames, and     *)
(* stores totalTime, labels and resultData; saveCSV writes them to files of *)
(* the working directory.  The functions of odbFetchFieldOutput.py, the    *)
(* InstanceMesh of odbInstanceMeshClasses.py and the J-integral readers of *)
(* odbHistoryVariableClasses.py and odbFetchHistoryOutput.py open the same *)
(* archive.                                                                *)
(*                                                                         *)
(* Times are integers (one unit = 0.5 of analysis time).  A float64 result *)
(* is a rational <<numerator, denominator>> in lowest terms; 0.0/0.0 (nan) *)
(* is <<0, 0>>.  A Python attribute that holds None is <<>>, a value v is  *)
(* <<v>>.                                                                  *)
(***************************************************************************)
EXTENDS Integers, Sequences, FiniteSets, TLC

\* ------------------------------------------------------------------ bounds
MaxSteps == 2
MaxTime  == 1
MaxVal   == 1
MaxRot   == 1
MaxOpen  == 2
MaxDerived == 2

\* ------------------------------------------------------------------- state
VARIABLES
    \* the archive (never written)
    steps,          \* odb.steps.values(): <<[totalTime, frames, keys]>>
    mesh,           \* the instance: [nodes, conn]
    nodeSets,       \* odb.rootAssembly.nodeSets: name -> labels, archive order
    elementSets,    \* odb.rootAssembly.elementSets: name -> labels, archive order
    carry,          \* the elements on which the integration point field is defined
    base,           \* base[e][k]: raw value at corner / integration point k of element e
    nodal,          \* nodal[c]: the part of component c of the nodal field common to all nodes
    rot, rev,       \* the order in which the archive delivers the raw samples
    instances,      \* odb.rootAssembly.instances.keys(), in key order
    history,        \* the history output: [steps, regions, outputs]
    \* the fieldVariable object
    kind,           \* the class: "IntPt", "Nodal", "Element"
    dataName, setName,
    totalTime, nodeLabels, elementLabels, intPtLabels, resultData,
    componentLabels, methodFlag,
    attrs,          \* the subclass attributes present in the object's __dict__
    odbPath,
    \* the InstanceMesh and the CrackVariable object
    instanceMesh,   \* [instanceName, exactKey, nodes, nodesCoords, elements, elemConnect]
    crackVariable,  \* [stepName, crackName, runCompletion, contourLabels, ...]
    \* the working directory
    files,          \* file name -> what the file holds
    \* the process
    nOpen,          \* archive handles opened and not closed
    last            \* what the last method call did

archive == <<steps, mesh, nodeSets, elementSets, carry, base, nodal, rot, rev,
            instances, history>>
results == <<totalTime, nodeLabels, elementLabels, intPtLabels, resultData>>
object  == <<kind, odbPath, dataName, setName, results, componentLabels, methodFlag, attrs>>
others  == <<instanceMesh, crackVariable>>
vars    == <<archive, object, others, files, nOpen, last>>

\* ----------------------------------------------------------------- values
None    == <<>>
Some(x) == <<x>>

RECURSIVE GCD(_, _)
GCD(a, b) == IF b = 0 THEN a ELSE GCD(b, a % b)

Abs(a) == IF a < 0 THEN -a ELSE a

NaN == <<0, 0>>
Float(n) == <<n, 1>>

\* float64 division of two integer valued floats; 0.0/0.0 is nan (numpy warns)
Divide(s, c) ==
    IF c = 0 THEN NaN
    ELSE LET g == GCD(Abs(s), c) IN <<s \div g, c \div g>>

IsNaN(v) == v[2] = 0

\* float64 addition and division by a count, on fractions
FloatAdd(a, b) ==
    IF IsNaN(a) \/ IsNaN(b) THEN NaN
    ELSE Divide(a[1] * b[2] + b[1] * a[2], a[2] * b[2])

FloatOver(a, n) == IF IsNaN(a) \/ n = 0 THEN NaN ELSE Divide(a[1], a[2] * n)

RECURSIVE SumSeq(_)
SumSeq(s) == IF s = <<>> THEN 0 ELSE Head(s) + SumSeq(Tail(s))

\* numpy.mean of a list of integer valued floats; the mean of [] is nan
NumpyMean(s) == Divide(SumSeq(s), Len(s))

InSeq(x, s) == \E i \in 1..Len(s) : s[i] = x

Range(s) == {s[i] : i \in 1..Len(s)}

\* list.sort(): insertion sort, ascending
RECURSIVE Insert(_, _)
Insert(x, s) ==
    IF s = <<>> THEN <<x>>
    ELSE IF x <= Head(s) THEN <<x>> \o s
    ELSE <<Head(s)>> \o Insert(x, Tail(s))

RECURSIVE SortedFrom(_, _)
SortedFrom(s, acc) ==
    IF s = <<>> THEN acc ELSE SortedFrom(Tail(s), Insert(Head(s), acc))

\* a variant that keeps the archive order
NoSort(s) == s

Sort(s) == SortedFrom(s, <<>>)

\* a variant that stores the name as given
asGiven(s) == s

\* str.upper() on the names in use
upper(s) ==
    CASE s = "peeq"  -> "PEEQ"
      [] s = "part"  -> "PART"
      [] s = "Mises" -> "MISES"
      [] s = "u"     -> "U"
      [] s = "nset"  -> "NSET"
      [] s = "Eset"  -> "ESET"
      [] s = "crack-1" -> "CRACK-1"
      [] OTHER       -> s

\* ---------------------------------------------------------------- archive
\* the frames in walk order: for step in odb.steps.values(): for frame in step.frames
RECURSIVE FramesFrom(_, _, _)
FramesFrom(st, i, ord) ==
    IF i > Len(st) THEN <<>>
    ELSE [k \in 1..Len(st[i].frames) |->
             [totalTime  |-> st[i].totalTime,
              frameValue |-> st[i].frames[k],
              keys       |-> st[i].keys,
              step       |-> i - 1,
              ord        |-> ord + k - 1]]
         \o FramesFrom(st, i + 1, ord + Len(st[i].frames))

AllFrames == FramesFrom(steps, 1, 0)

\* odb.steps[odb.steps.keys()[-1]].frames[-1].fieldOutputs
LastFrameKeys == steps[Len(steps)].keys
FirstFrameKeys == steps[1].keys

i_numnod == Cardinality(mesh.nodes)
i_numele == Cardinality(DOMAIN mesh.conn)

\* the corners <<e, k>> of the mesh, by element label and local corner number
RECURSIVE CornersFrom(_)
CornersFrom(es) ==
    IF es = <<>> THEN <<>>
    ELSE [k \in 1..Len(mesh.conn[Head(es)]) |-> <<Head(es), k>>]
         \o CornersFrom(Tail(es))

RECURSIVE SetToSeq(_)
SetToSeq(S) ==
    IF S = {} THEN <<>>
    ELSE LET m == CHOOSE x \in S : \A y \in S : x <= y
         IN <<m>> \o SetToSeq(S \ {m})

AllCorners == CornersFrom(SetToSeq(DOMAIN mesh.conn))

\* the archive's delivery order of a frame's samples
Rotate(s, r) ==
    IF s = <<>> THEN s
    ELSE [i \in 1..Len(s) |-> s[((i - 1 + r) % Len(s)) + 1]]

Reverse(s) == [i \in 1..Len(s) |-> s[Len(s) + 1 - i]]

Delivered(s, frame) ==
    IF rev THEN Reverse(Rotate(s, rot + frame.ord)) ELSE Rotate(s, rot + frame.ord)

\* one raw sample of an integration point field at corner / point k of element e
RawValue(e, k, frame) == base[e][k] + frame.ord

\* the scalar and the invariants a sample of the field carries
Payload(v) == [data |-> v, mises |-> v + 1, press |-> v + 2, inv3 |-> v + 3]

ElementNodalSample(c, frame) ==
    [elementLabel |-> c[1], nodeLabel |-> mesh.conn[c[1]][c[2]]]
        @@ Payload(RawValue(c[1], c[2], frame))

IntPtSample(c, frame) ==
    [elementLabel |-> c[1], integrationPoint |-> c[2]]
        @@ Payload(RawValue(c[1], c[2], frame))

ElementNodalSamples(cs, frame) ==
    Delivered([i \in 1..Len(cs) |-> ElementNodalSample(cs[i], frame)], frame)

IntPtSamples(cs, frame) ==
    Delivered([i \in 1..Len(cs) |-> IntPtSample(cs[i], frame)], frame)

\* frame.fieldOutputs[key].getSubset(position=ELEMENT_NODAL, region=<node set>).values
ElementNodalOnNodes(frame, region) ==
    ElementNodalSamples(
        SelectSeq(AllCorners,
            LAMBDA c : c[1] \in carry /\ mesh.conn[c[1]][c[2]] \in Range(region)),
        frame)

\* frame.fieldOutputs[key].getSubset(position=INTEGRATION_POINT, region=<element set>).values
IntPtOnElements(frame, region) ==
    IntPtSamples(
        SelectSeq(AllCorners, LAMBDA c : c[1] \in carry /\ c[1] \in Range(region)),
        frame)

\* frame.fieldOutputs[key].getSubset(position=ELEMENT_NODAL, region=<element set>).values
ElementNodalOnElements(frame, region) ==
    ElementNodalSamples(
        SelectSeq(AllCorners, LAMBDA c : c[1] \in carry /\ c[1] \in Range(region)),
        frame)

\* a whole element field (EVOL): one value per element of the region
WholeElementSample(e) == [elementLabel |-> e, data |-> 100 + e]

WholeElementSamples(es, frame) ==
    Delivered([i \in 1..Len(es) |-> WholeElementSample(es[i])], frame)

\* frame.fieldOutputs[key].getSubset(region=<element set>).values
WholeElementOnElements(frame, region) ==
    WholeElementSamples(SetToSeq(Range(region) \cap DOMAIN mesh.conn), frame)

\* a nodal field (U, COORD, RF): one vector per node of the region
\* (a label is the sequence of its parts, so that 'summed' + label is a label)
Components == << <<"U1">>, <<"U2">> >>

NodalSample(n, frame) ==
    [nodeLabel |-> n,
     data |-> [c \in 1..Len(Components) |-> nodal[c] + n + frame.ord]]

NodalSamples(ns, frame) ==
    Delivered([i \in 1..Len(ns) |-> NodalSample(ns[i], frame)], frame)

\* frame.fieldOutputs[key].getSubset(region=<node set>).values
NodalOnNodes(frame, region) ==
    NodalSamples(SetToSeq(Range(region) \cap mesh.nodes), frame)

\* getattr(value, abqAttrib)
getattr(value, a) ==
    CASE a = "data"  -> value.data
      [] a = "mises" -> value.mises
      [] a = "press" -> value.press
      [] a = "inv3"  -> value.inv3

\* ------------------------------------------------- dependent properties
\* IntPtVariable.keyName, NodalVariable.keyName, ElementVariable.keyName:
\* <<key>>, or <<>> when the property raises
keyName ==
    CASE kind = "IntPt" ->
             (CASE dataName = "PEEQ"  -> Some("PEEQ")
                [] dataName = "MISES" -> Some("S")
                [] dataName = "PRESS" -> Some("S")
                [] dataName = "INV3"  -> Some("S")
                [] OTHER              -> None)
      [] kind = "Nodal" -> Some(dataName)
      [] kind = "Element" ->
             (IF dataName = "EVOL" THEN Some("EVOL") ELSE None)

\* IntPtVariable.abqAttrib
abqAttrib ==
    CASE dataName = "PEEQ"  -> Some("data")
      [] dataName = "MISES" -> Some("mises")
      [] dataName = "PRESS" -> Some("press")
      [] dataName = "INV3"  -> Some("inv3")
      [] OTHER              -> None

\* ------------------------------------------------- _open_odb_check_keys
\* openOdb(self.odbPath, readOnly=True)
openOdb ==
    [outcome |-> "ok", opened |-> TRUE, closed |-> FALSE,
     setLookup |-> FALSE, probed |-> FALSE, mySet |-> <<>>]

\* a variant of the except clause without odb.close()
SetNotFoundLeaving(h) == [h EXCEPT !.outcome = "SetNotFound"]

\* except KeyError: print ...; odb.close(); raise Exception
SetNotFound(h) == [h EXCEPT !.outcome = "SetNotFound", !.closed = TRUE]

\* has_key(self.keyName) == 0: print ...; odb.close(); raise Exception
KeyNotDefined(h) == [h EXCEPT !.outcome = "KeyNotDefined", !.closed = TRUE]

\* the try block: the set of setType named self.setName
OpenSet(h, setType) ==
    IF upper(setType) = "NODE" THEN
        IF setName \in DOMAIN nodeSets
        THEN [h EXCEPT !.setLookup = TRUE, !.mySet = nodeSets[setName]]
        ELSE SetNotFound([h EXCEPT !.setLookup = TRUE])
    ELSE IF upper(setType) = "ELEMENT" THEN
        IF setName \in DOMAIN elementSets
        THEN [h EXCEPT !.setLookup = TRUE, !.mySet = elementSets[setName]]
        ELSE SetNotFound([h EXCEPT !.setLookup = TRUE])
    ELSE \* raise Exception: not a KeyError, so it passes the except clause
        [h EXCEPT !.outcome = "UnknownSetType"]

\* a variant that probes the first frame of the first step
ProbedKeysFirst == FirstFrameKeys

\* the key probe on the last frame of the last step
ProbedKeys == LastFrameKeys

CheckKey(h) ==
    IF h.outcome # "ok" THEN h
    ELSE IF keyName = None
    THEN \* evaluating self.keyName raises; nothing closes the archive
        [h EXCEPT !.outcome = "Unsupported"]
    ELSE IF keyName[1] \in ProbedKeys
    THEN [h EXCEPT !.probed = TRUE]
    ELSE KeyNotDefined([h EXCEPT !.probed = TRUE])

_open_odb_check_keys(setType) == CheckKey(OpenSet(openOdb, setType))

\* ------------------------------------------------------------ _numframes
RECURSIVE DistinctTimes(_, _, _)
DistinctTimes(fr, k, seen) ==
    IF k > Len(fr) THEN seen
    ELSE IF InSeq(fr[k].totalTime + fr[k].frameValue, seen)
    THEN DistinctTimes(fr, k + 1, seen)
    ELSE DistinctTimes(fr, k + 1, Append(seen, fr[k].totalTime + fr[k].frameValue))

_numframes == Len(DistinctTimes(AllFrames, 1, <<>>))

\* ---------------------------------------------------- the frame's values
IndexOk(i, n) == i \in 0..(n - 1)

\* fetchNodalAverage: for value in myFieldOutput.values:
\*     frameData[value.nodeLabel-1,0] += ...; nValPerNode[value.nodeLabel-1,0] += 1.0
RECURSIVE SumPerNode(_, _, _)
SumPerNode(values, a, acc) ==
    IF values = <<>> \/ acc.err # "ok" THEN acc
    ELSE LET value == Head(values)
             idx   == value.nodeLabel - 1
         IN IF ~IndexOk(idx, i_numnod)
            THEN [acc EXCEPT !.err = "IndexError"]
            ELSE SumPerNode(Tail(values), a,
                     [acc EXCEPT !.frameData[idx]   = @ + getattr(value, a),
                                 !.nValPerNode[idx] = @ + 1])

\* a variant that divides by the number of nodes of the set
AverageByNumnod(labels, acc) ==
    [p \in 1..Len(labels) |-> Divide(acc.frameData[labels[p] - 1], Len(labels))]

\* frameData[nodeLabels-1,0] / nValPerNode[nodeLabels-1,0]
AveragePerNode(labels, acc) ==
    [p \in 1..Len(labels) |->
        Divide(acc.frameData[labels[p] - 1], acc.nValPerNode[labels[p] - 1])]

AveragedRow(labels, acc) ==
    IF acc.err # "ok" THEN [err |-> acc.err, row |-> <<>>]
    ELSE IF \E p \in 1..Len(labels) : ~IndexOk(labels[p] - 1, i_numnod)
    THEN [err |-> "IndexError", row |-> <<>>]
    ELSE [err |-> "ok", row |-> AveragePerNode(labels, acc)]

\* numpy.zeros((i_numnod,1))
ZeroPerNode == [i \in 0..(i_numnod - 1) |-> 0]

NodalAverageRow(frame, mySet, labels) ==
    AveragedRow(labels,
        SumPerNode(ElementNodalOnNodes(frame, mySet), abqAttrib[1],
            [err |-> "ok", frameData |-> ZeroPerNode, nValPerNode |-> ZeroPerNode]))

\* fetchElementAverage: ip_data = the tempData[k] with elementLabels[i] == tempElems[k]
RECURSIVE ip_data(_, _, _, _)
ip_data(label, tempElems, tempData, k) ==
    IF k > Len(tempElems) THEN <<>>
    ELSE IF label = tempElems[k]
         THEN <<tempData[k]>> \o ip_data(label, tempElems, tempData, k + 1)
         ELSE ip_data(label, tempElems, tempData, k + 1)

\* a variant that takes the samples of the i-th element to be the i-th run of
\* the delivered values
MeanByPosition(labels, tempElems, tempData) ==
    [err |-> "ok",
     row |-> [i \in 1..Len(labels) |->
                 NumpyMean(SubSeq(tempData,
                     (i - 1) * (Len(tempData) \div Len(labels)) + 1,
                     i * (Len(tempData) \div Len(labels))))]]

MeanPerElement(labels, tempElems, tempData) ==
    [err |-> "ok",
     row |-> [i \in 1..Len(labels) |->
                 NumpyMean(ip_data(labels[i], tempElems, tempData, 1))]]

tempElemsOf(values) == [k \in 1..Len(values) |-> values[k].elementLabel]
tempDataOf(values)  == [k \in 1..Len(values) |-> getattr(values[k], abqAttrib[1])]

ElementAverageValues(labels, values) ==
    MeanPerElement(labels, tempElemsOf(values), tempDataOf(values))

ElementAverageRow(frame, mySet, labels) ==
    ElementAverageValues(labels, IntPtOnElements(frame, mySet))

\* fetchNodalOutput: frameData[len(nodes)-1,i] = value.data[i], then
\* resultData[.., i, :] = frameData[k,:] for nodeLabels[i] == nodes[k]
RECURSIVE PlaceByLabel(_, _, _, _)
PlaceByLabel(nodes, frameData, label, k) ==
    \* the last k with nodes[k] == label wins; zeros when there is none
    IF k = 0 THEN [c \in 1..Len(Components) |-> Float(0)]
    ELSE IF nodes[k] = label
         THEN [c \in 1..Len(Components) |-> Float(frameData[k][c])]
         ELSE PlaceByLabel(nodes, frameData, label, k - 1)

\* variant: the rows of frameData taken in the order of arrival
PlaceByArrival(nodes, frameData, labels) ==
    [i \in 1..Len(labels) |->
        IF i <= Len(frameData)
        THEN [c \in 1..Len(Components) |-> Float(frameData[i][c])]
        ELSE [c \in 1..Len(Components) |-> Float(0)]]

PlaceNodal(nodes, frameData, labels) ==
    [i \in 1..Len(labels) |-> PlaceByLabel(nodes, frameData, labels[i], Len(nodes))]

NodalOutputValues(labels, values) ==
    IF Len(values) > Len(labels)
    THEN \* frameData[len(nodes)-1,i] is outside numpy.zeros((numnod,numdim))
        [err |-> "IndexError", row |-> <<>>]
    ELSE [err |-> "ok",
          row |-> PlaceNodal([k \in 1..Len(values) |-> values[k].nodeLabel],
                             [k \in 1..Len(values) |-> values[k].data], labels)]

NodalOutputRow(frame, mySet, labels) ==
    NodalOutputValues(labels, NodalOnNodes(frame, mySet))

\* numpy.zeros((r, c))
ZeroMatrix(r, c) == [i \in 0..(r - 1) |-> [j \in 0..(c - 1) |-> 0]]

\* fetchNodalExtrap: nnpe = len(myElemSet.elements[0][0].connectivity)
nnpe == Len(mesh.conn[elementSets[setName][1]])

\* a variant that stores a sample under its node for every element
RECURSIVE ByNodeOnly(_, _, _)
ByNodeOnly(values, a, acc) ==
    IF values = <<>> \/ acc.err # "ok" THEN acc
    ELSE IF IndexOk(Head(values).nodeLabel - 1, i_numnod)
         THEN ByNodeOnly(Tail(values), a,
                  [acc EXCEPT !.frameData[Head(values).nodeLabel - 1] =
                                  [e \in DOMAIN @ |-> getattr(Head(values), a)]])
         ELSE [acc EXCEPT !.err = "IndexError"]

\* fetchNodalExtrap: frameData[n-1,e-1] = getattr(value, abqAttrib)
RECURSIVE ByNodeAndElement(_, _, _)
ByNodeAndElement(values, a, acc) ==
    IF values = <<>> \/ acc.err # "ok" THEN acc
    ELSE IF /\ IndexOk(Head(values).nodeLabel - 1, i_numnod)
            /\ IndexOk(Head(values).elementLabel - 1, i_numele)
         THEN ByNodeAndElement(Tail(values), a,
                  [acc EXCEPT !.frameData[Head(values).nodeLabel - 1]
                                         [Head(values).elementLabel - 1]
                                  = getattr(Head(values), a)])
         ELSE [acc EXCEPT !.err = "IndexError"]

\* resultData[.., :, i] = frameData[nodeLabels[i,:]-1, e-1]
ExtrapolatedRow(labels, acc) ==
    IF acc.err # "ok" THEN [err |-> acc.err, row |-> <<>>]
    ELSE IF \E i \in 1..Len(labels) :
                \/ ~IndexOk(labels[i] - 1, i_numele)
                \/ \E k \in 1..nnpe : ~IndexOk(mesh.conn[labels[i]][k] - 1, i_numnod)
    THEN [err |-> "IndexError", row |-> <<>>]
    ELSE [err |-> "ok",
          row |-> [k \in 1..nnpe |-> [i \in 1..Len(labels) |->
                      Float(acc.frameData[mesh.conn[labels[i]][k] - 1][labels[i] - 1])]]]

NodalExtrapRow(frame, mySet, labels) ==
    ExtrapolatedRow(labels,
        ByNodeAndElement(ElementNodalOnElements(frame, mySet), abqAttrib[1],
            [err |-> "ok", frameData |-> ZeroMatrix(i_numnod, i_numele)]))

\* fetchIntPtData: numips on the last frame of the last step; nipe = numips/numel
numips == Len(IntPtOnElements(AllFrames[Len(AllFrames)], elementSets[setName]))
nipe == numips \div Len(elementSets[setName])

\* fetchIntPtData: frameData[ip-1,e-1] = getattr(value, abqAttrib)
RECURSIVE ByIntPtAndElement(_, _, _, _)
ByIntPtAndElement(values, a, n, acc) ==
    IF values = <<>> \/ acc.err # "ok" THEN acc
    ELSE IF /\ IndexOk(Head(values).integrationPoint - 1, n)
            /\ IndexOk(Head(values).elementLabel - 1, i_numele)
         THEN ByIntPtAndElement(Tail(values), a, n,
                  [acc EXCEPT !.frameData[Head(values).integrationPoint - 1]
                                         [Head(values).elementLabel - 1]
                                  = getattr(Head(values), a)])
         ELSE [acc EXCEPT !.err = "IndexError"]

\* resultData[.., :, :] = frameData[:, elementLabels-1]
IntPtColumns(labels, n, acc) ==
    IF acc.err # "ok" THEN [err |-> acc.err, row |-> <<>>]
    ELSE IF \E i \in 1..Len(labels) : ~IndexOk(labels[i] - 1, i_numele)
    THEN [err |-> "IndexError", row |-> <<>>]
    ELSE [err |-> "ok",
          row |-> [ip \in 1..n |-> [i \in 1..Len(labels) |->
                      Float(acc.frameData[ip - 1][labels[i] - 1])]]]

IntPtFrame(frame, mySet, labels, n) ==
    IntPtColumns(labels, n,
        ByIntPtAndElement(IntPtOnElements(frame, mySet), abqAttrib[1], n,
            [err |-> "ok", frameData |-> ZeroMatrix(n, i_numele)]))

IntPtDataRow(frame, mySet, labels) == IntPtFrame(frame, mySet, labels, nipe)

FrameRow(method, frame, mySet, labels) ==
    IF keyName[1] \notin frame.keys
    THEN \* frame.fieldOutputs[self.keyName] raises KeyError
        [err |-> "KeyError", row |-> <<>>]
    ELSE CASE method = "fetchNodalAverage"   -> NodalAverageRow(frame, mySet, labels)
           [] method = "fetchElementAverage" -> ElementAverageRow(frame, mySet, labels)
           [] method = "fetchNodalOutput"    -> NodalOutputRow(frame, mySet, labels)
           [] method = "fetchNodalExtrap"    -> NodalExtrapRow(frame, mySet, labels)
           [] method = "fetchIntPtData"      -> IntPtDataRow(frame, mySet, labels)

\* ------------------------------------------------ the step and frame loop
\* a variant of the loop without the duplicate test
NeverDuplicate(frameTime, tt) == FALSE

\* if frameTime in totalTime: continue / else: totalTime.append(frameTime)
IsDuplicate(frameTime, tt) == InSeq(frameTime, tt)

\* a variant that ignores step.totalTime
FrameValueOnly(frame) == frame.frameValue

\* frameTime = step.totalTime + frame.frameValue
FrameTime(frame) == frame.totalTime + frame.frameValue

\* the body of the loop for a frame that is not a duplicate:
\* resultData[len(totalTime)-1, ...] = <the frame's values>
Stored(acc, frameTime, r) ==
    IF r.err # "ok"
    THEN [acc EXCEPT !.err = r.err, !.totalTime = Append(@, frameTime)]
    ELSE IF ~IndexOk(Len(acc.totalTime), Len(acc.resultData))
    THEN [acc EXCEPT !.err = "IndexError", !.totalTime = Append(@, frameTime)]
    ELSE [acc EXCEPT !.totalTime = Append(@, frameTime),
                     !.resultData[Len(acc.totalTime) + 1] = r.row,
                     !.visited = @ + 1]

\* a variant in which a frame with a recorded marker overwrites the last row
RECURSIVE LoopOverwriting(_, _, _, _, _, _)
LoopOverwriting(method, fr, k, mySet, labels, acc) ==
    IF k > Len(fr) \/ acc.err # "ok" THEN acc
    ELSE IF IsDuplicate(FrameTime(fr[k]), acc.totalTime)
    THEN LoopOverwriting(method, fr, k + 1, mySet, labels,
             [acc EXCEPT !.resultData[Len(acc.totalTime)] =
                             FrameRow(method, fr[k], mySet, labels).row])
    ELSE LoopOverwriting(method, fr, k + 1, mySet, labels,
             Stored(acc, FrameTime(fr[k]), FrameRow(method, fr[k], mySet, labels)))

RECURSIVE FrameLoop(_, _, _, _, _, _)
FrameLoop(method, fr, k, mySet, labels, acc) ==
    IF k > Len(fr) \/ acc.err # "ok" THEN acc
    ELSE IF IsDuplicate(FrameTime(fr[k]), acc.totalTime)
    THEN FrameLoop(method, fr, k + 1, mySet, labels, acc)
    ELSE FrameLoop(method, fr, k + 1, mySet, labels,
             Stored(acc, FrameTime(fr[k]), FrameRow(method, fr[k], mySet, labels)))

\* numpy.zeros((numframes, n)) and the walk
Walk(method, mySet, labels, zeroRow) ==
    FrameLoop(method, AllFrames, 1, mySet, labels,
        [err |-> "ok", totalTime |-> <<>>, visited |-> 0,
         resultData |-> [i \in 1..(_numframes) |-> zeroRow]])

\* ------------------------------------------------------ the fetch methods
NoCall ==
    [method |-> "none", outcome |-> "none", opened |-> FALSE, closed |-> FALSE,
     setLookup |-> FALSE, probed |-> FALSE, numframes |-> None, visited |-> 0,
     arg |-> None, written |-> <<>>]

\* the call up to and including the step and frame loop; odb.close() follows
\* the loop only when nothing was raised
CallOf(method, h) ==
    [NoCall EXCEPT !.method = method, !.outcome = h.outcome,
                   !.opened = h.opened, !.closed = h.closed,
                   !.setLookup = h.setLookup, !.probed = h.probed]

Walked(c, labels, w) ==
    [call |-> [c EXCEPT !.outcome = w.err,
                        !.closed = (w.err = "ok"),
                        !.numframes = Some(_numframes),
                        !.visited = w.visited],
     labels |-> labels,
     totalTime |-> w.totalTime,
     resultData |-> w.resultData]

ZeroRow(labels) == [p \in 1..Len(labels) |-> Float(0)]
ZeroVectors(labels) ==
    [p \in 1..Len(labels) |-> [c \in 1..Len(Components) |-> Float(0)]]
ZeroCorners(labels) ==
    [k \in 1..nnpe |-> [i \in 1..Len(labels) |-> Float(0)]]
ZeroIntPts(labels) ==
    [ip \in 1..nipe |-> [i \in 1..Len(labels) |-> Float(0)]]

\* one row of numpy.zeros((numframes, ...)) as the method allocates it
ZeroOf(method, labels) ==
    CASE method = "fetchNodalExtrap"    -> ZeroCorners(labels)
      [] method = "fetchNodalAverage"   -> ZeroRow(labels)
      [] method = "fetchIntPtData"      -> ZeroIntPts(labels)
      [] method = "fetchElementAverage" -> ZeroRow(labels)
      [] method = "fetchNodalOutput"    -> ZeroVectors(labels)

Collected(method, h, labels) ==
    Walked(CallOf(method, h), labels,
           Walk(method, h.mySet, labels, ZeroOf(method, labels)))

Opened(method, h) ==
    IF h.outcome # "ok"
    THEN [call |-> CallOf(method, h),
          labels |-> <<>>, totalTime |-> <<>>, resultData |-> <<>>]
    ELSE Collected(method, h, Sort(h.mySet))

Fetch(method, setType) ==
    Opened(method, _open_odb_check_keys(setType))

Returned(f) ==
    /\ last' = f.call
    /\ nOpen' = nOpen + (IF f.call.opened /\ ~f.call.closed THEN 1 ELSE 0)

\* nodeLabels[numpy.where(elementLabels==e.label)[0][0],:] = e.connectivity
Connectivity(labels) == [i \in 1..Len(labels) |-> mesh.conn[labels[i]]]

\* a variant that assigns the attributes as the walk proceeds, also when
\* the call raises
NodalExtrapAssigning(f) ==
    /\ Returned(f)
    /\ totalTime'     = Some(f.totalTime)
    /\ nodeLabels'    = Some(Connectivity(f.labels))
    /\ elementLabels' = Some(f.labels)
    /\ resultData'    = Some(f.resultData)
    /\ methodFlag'    = Some("fetchNodalData")
    /\ attrs' = attrs \cup {"__methodFlag"}
    /\ UNCHANGED intPtLabels

NodalExtrapSet(f) ==
    /\ Returned(f)
    /\ IF f.call.outcome = "ok"
       THEN /\ totalTime'     = Some(f.totalTime)
            /\ nodeLabels'    = Some(Connectivity(f.labels))
            /\ elementLabels' = Some(f.labels)
            /\ resultData'    = Some(f.resultData)
            /\ methodFlag'    = Some("fetchNodalData")
            /\ attrs' = attrs \cup {"__methodFlag"}
            /\ UNCHANGED intPtLabels
       ELSE UNCHANGED <<results, methodFlag, attrs>>

fetchNodalExtrap ==
    /\ kind = "IntPt"
    /\ nOpen < MaxOpen
    /\ \E f \in {Fetch("fetchNodalExtrap", "ELEMENT")} : NodalExtrapSet(f)
    /\ UNCHANGED <<archive, files, others, kind, odbPath, dataName, setName, componentLabels>>

IntPtDataSet(f) ==
    /\ Returned(f)
    /\ IF f.call.outcome = "ok"
       THEN /\ totalTime'     = Some(f.totalTime)
            /\ intPtLabels'   = Some([k \in 1..nipe |-> k])
            /\ elementLabels' = Some(f.labels)
            /\ resultData'    = Some(f.resultData)
            /\ methodFlag'    = Some("fetchIntPtData")
            /\ attrs' = attrs \cup {"__methodFlag"}
            /\ UNCHANGED nodeLabels
       ELSE UNCHANGED <<results, methodFlag, attrs>>

fetchIntPtData ==
    /\ kind = "IntPt"
    /\ nOpen < MaxOpen
    /\ \E f \in {Fetch("fetchIntPtData", "ELEMENT")} : IntPtDataSet(f)
    /\ UNCHANGED <<archive, files, others, kind, odbPath, dataName, setName, componentLabels>>

NodalAverageSet(f) ==
    /\ Returned(f)
    /\ IF f.call.outcome = "ok"
       THEN /\ totalTime'  = Some(f.totalTime)
            /\ nodeLabels' = Some(f.labels)
            /\ resultData' = Some(f.resultData)
            /\ methodFlag' = Some("fetchNodalAverage")
            /\ attrs' = attrs \cup {"__methodFlag"}
            /\ UNCHANGED <<elementLabels, intPtLabels>>
       ELSE UNCHANGED <<results, methodFlag, attrs>>

fetchNodalAverage ==
    /\ kind = "IntPt"
    /\ nOpen < MaxOpen
    /\ \E f \in {Fetch("fetchNodalAverage", "NODE")} : NodalAverageSet(f)
    /\ UNCHANGED <<archive, files, others, kind, odbPath, dataName, setName, componentLabels>>

ElementAverageSet(f) ==
    /\ Returned(f)
    /\ IF f.call.outcome = "ok"
       THEN /\ totalTime'     = Some(f.totalTime)
            /\ elementLabels' = Some(f.labels)
            /\ resultData'    = Some(f.resultData)
            /\ methodFlag'    = Some("fetchElementAverage")
            /\ attrs' = attrs \cup {"__methodFlag"}
            /\ UNCHANGED <<nodeLabels, intPtLabels>>
       ELSE UNCHANGED <<results, methodFlag, attrs>>

fetchElementAverage ==
    /\ kind = "IntPt"
    /\ nOpen < MaxOpen
    /\ \E f \in {Fetch("fetchElementAverage", "ELEMENT")} : ElementAverageSet(f)
    /\ UNCHANGED <<archive, files, others, kind, odbPath, dataName, setName, componentLabels>>

NodalOutputSet(f) ==
    /\ Returned(f)
    /\ IF f.call.outcome = "ok"
       THEN /\ totalTime'  = Some(f.totalTime)
            /\ nodeLabels' = Some(f.labels)
            /\ resultData' = Some(f.resultData)
            /\ componentLabels' = Some(Components)
            /\ attrs' = attrs \cup {"_componentLabels"}
            /\ UNCHANGED <<elementLabels, intPtLabels>>
       ELSE UNCHANGED <<results, componentLabels, attrs>>

fetchNodalOutput ==
    /\ kind = "Nodal"
    /\ nOpen < MaxOpen
    /\ \E f \in {Fetch("fetchNodalOutput", "NODE")} : NodalOutputSet(f)
    /\ UNCHANGED <<archive, files, others, kind, odbPath, dataName, setName, methodFlag>>

\* a variant that adds up every component of every node
RECURSIVE SumAcross(_, _, _)
SumAcross(row, dim, n) ==
    IF n = 0 THEN Float(0)
    ELSE FloatAdd(SumAcross(row, dim, n - 1),
                  FloatAdd(row[n][1], row[n][Len(row[n])]))

\* sumNodalOutput: resultData[frame,0,dim] += self.resultData[frame,n,dim]
RECURSIVE SumNodes(_, _, _)
SumNodes(row, dim, n) ==
    IF n = 0 THEN Float(0)
    ELSE FloatAdd(SumNodes(row, dim, n - 1), row[n][dim])

\* a variant that sums the nodes and does not divide
SumForMean(row, dim) == SumNodes(row, dim, Len(row))

\* numpy.mean(self.resultData[frame,:,dim])
MeanNodes(row, dim) == FloatOver(SumNodes(row, dim, Len(row)), Len(row))

\* 'summed' + label, 'average' + label
Renamed(prefix, labels) == [i \in 1..Len(labels) |-> <<prefix>> \o labels[i]]

\* the number of parts of the component labels
Derivations == IF componentLabels = None THEN 0 ELSE Len(componentLabels[1][1])

\* len(self.totalTime) raises TypeError while totalTime is None
Aggregated(method) ==
    [NoCall EXCEPT !.method = method,
                   !.outcome = IF totalTime = None THEN "TypeError" ELSE "ok"]

sumNodalOutput ==
    /\ kind = "Nodal"
    /\ Derivations <= MaxDerived
    /\ last' = Aggregated("sumNodalOutput")
    /\ IF totalTime = None
       THEN UNCHANGED <<resultData, nodeLabels, componentLabels>>
       ELSE /\ resultData' =
                 Some([f \in 1..Len(totalTime[1]) |->
                         <<[dim \in 1..Len(componentLabels[1]) |->
                               SumNodes(resultData[1][f], dim, Len(nodeLabels[1]))]>>])
            /\ nodeLabels' = Some(<<-1>>)
            /\ componentLabels' = Some(Renamed("summed", componentLabels[1]))
    /\ UNCHANGED <<archive, files, others, kind, odbPath, dataName, setName, totalTime, elementLabels,
                   intPtLabels, methodFlag, attrs, nOpen>>

avgNodalOutput ==
    /\ kind = "Nodal"
    /\ Derivations <= MaxDerived
    /\ last' = Aggregated("avgNodalOutput")
    /\ IF totalTime = None
       THEN UNCHANGED <<resultData, nodeLabels, componentLabels>>
       ELSE /\ resultData' =
                 Some([f \in 1..Len(totalTime[1]) |->
                         <<[dim \in 1..Len(componentLabels[1]) |->
                               MeanNodes(resultData[1][f], dim)]>>])
            /\ nodeLabels' = Some(<<-1>>)
            /\ componentLabels' = Some(Renamed("average", componentLabels[1]))
    /\ UNCHANGED <<archive, files, others, kind, odbPath, dataName, setName, totalTime, elementLabels,
                   intPtLabels, methodFlag, attrs, nOpen>>

\* fetchInitialElementVolume: the values of the first frame of the first step;
\* elementLabels is rebuilt from the values in the order they arrive
InitialField(c, numele, values) ==
    IF Len(values) # numele
    THEN \* resultData[0,:] = tempData with another length
        [call |-> [c EXCEPT !.outcome = "ValueError"],
         labels |-> <<>>, totalTime |-> <<>>, resultData |-> <<>>]
    ELSE [call |-> [c EXCEPT !.closed = TRUE],
          labels |-> [k \in 1..Len(values) |-> values[k].elementLabel],
          totalTime |-> <<0>>,
          resultData |-> <<[k \in 1..Len(values) |-> Float(values[k].data)]>>]

InitialVolume(c, h) ==
    IF h.outcome # "ok"
    THEN [call |-> c, labels |-> <<>>, totalTime |-> <<>>, resultData |-> <<>>]
    ELSE IF keyName[1] \notin FirstFrameKeys
    THEN \* firstFrame.fieldOutputs[self.keyName] raises KeyError
        [call |-> [c EXCEPT !.outcome = "KeyError"],
         labels |-> <<>>, totalTime |-> <<>>, resultData |-> <<>>]
    ELSE InitialField(c, Len(Sort(h.mySet)),
                      WholeElementOnElements(AllFrames[1], h.mySet))

InitialVolumeOf(h) == InitialVolume(CallOf("fetchInitialElementVolume", h), h)

InitialVolumeSet(f) ==
    /\ Returned(f)
    /\ IF f.call.outcome = "ok"
       THEN /\ elementLabels' = Some(f.labels)
            /\ resultData'    = Some(f.resultData)
            /\ totalTime'     = Some(f.totalTime)
            /\ UNCHANGED <<nodeLabels, intPtLabels>>
       ELSE UNCHANGED results

fetchInitialElementVolume ==
    /\ kind = "Element"
    /\ nOpen < MaxOpen
    /\ \E f \in {InitialVolumeOf(_open_odb_check_keys("ELEMENT"))} : InitialVolumeSet(f)
    /\ UNCHANGED <<archive, files, others, kind, odbPath, dataName, setName, componentLabels, methodFlag, attrs>>

\* ------------------------------------------------------------- the export
\* str() of a small index, as it appears in a file name
IntStr(i) ==
    CASE i = 0 -> "0" [] i = 1 -> "1" [] i = 2 -> "2" [] i = 3 -> "3"
      [] i = 4 -> "4" [] OTHER -> "n"

\* str() of a number or of an array row: the text of a field
str(v) == <<"text", v>>

\* odbPath.split('\\')[-1]
odbName ==
    CASE odbPath = "job.odb" -> "job.odb"
      [] odbPath = "C:\\run\\job.odb" -> "job.odb"
      [] OTHER -> odbPath

\* os.path.splitext(...)[0]
splitext(name) ==
    CASE name = "job.odb" -> "job"
      [] OTHER -> name

IllegalParts == {"<", ">", ":", "\"", "/", "|", "?", "*"}

\* myFileOperations.safe_filename: the characters no file name may hold
\* are dropped
safe_filename(name) ==
    [name EXCEPT !.title = SelectSeq(@, LAMBDA part : part \notin IllegalParts)]

\* odbName + '_' + setName + '_' + dataTitle + '.csv'
saveFileName(dataTitle) ==
    safe_filename([odb |-> splitext(odbName), set |-> setName, title |-> dataTitle])

\* which labels head the columns
LabelsToWrite ==
    IF intPtLabels # None
    THEN [line1 |-> "element (right):", labels |-> elementLabels]
    ELSE IF elementLabels # None
    THEN [line1 |-> "element (right):", labels |-> elementLabels]
    ELSE IF nodeLabels # None
    THEN [line1 |-> "node (right):", labels |-> nodeLabels]
    ELSE None

\* one data line: str(dataSet[i,k]), or str(dataSet[i]) on IndexError
DataLine(dataSet, i, n) ==
    [time |-> str(totalTime[1][i]),
     fields |-> [k \in 1..n |->
                    IF k <= Len(dataSet[i]) THEN str(dataSet[i][k])
                    ELSE str(dataSet[i])]]

\* the file after saveFile.close()
CsvFile(dataSet, head) ==
    [line1 |-> head.line1,
     labels |-> [k \in 1..Len(head.labels[1]) |-> str(head.labels[1][k])],
     line2 |-> [k \in 1..Len(head.labels[1]) |-> "\"\""],
     lines |-> [i \in 1..Len(totalTime[1]) |->
                   DataLine(dataSet, i, Len(head.labels[1]))],
     closed |-> TRUE]

\* the file when a write is refused after the two header lines
CsvHeadOnly(dataSet, head) ==
    [CsvFile(dataSet, head) EXCEPT !.lines = <<>>, !.closed = FALSE]

\* check_delete(saveFileName): the file of that name is removed
check_delete(name, dir) == [f \in DOMAIN dir \ {name} |-> dir[f]]

\* dataSet = resultData[:, k, :]
Plane(k) == [i \in 1..Len(resultData[1]) |-> resultData[1][i][k]]

\* dataSet = resultData[:, :, c]
Slice(c) ==
    [i \in 1..Len(resultData[1]) |->
        [p \in 1..Len(resultData[1][i]) |-> resultData[1][i][p][c]]]

\* the calls of _saveOdbFieldDataCSV that saveCSV makes, in order
IntPtExports ==
    IF methodFlag = Some("fetchIntPtData")
    THEN [k \in 1..Len(intPtLabels[1]) |->
             [title |-> <<dataName, "_IP", IntStr(intPtLabels[1][k])>>,
              dataSet |-> Plane(intPtLabels[1][k])]]
    ELSE IF methodFlag = Some("fetchNodalData")
    THEN [k \in 1..nnpe |->
             [title |-> <<dataName, "_NOD", IntStr(k - 1)>>,
              dataSet |-> Plane(k)]]
    ELSE << [title |-> <<dataName>>, dataSet |-> resultData[1]] >>

NodalExports ==
    [c \in 1..Len(componentLabels[1]) |->
        [title |-> componentLabels[1][c], dataSet |-> Slice(c)]]

Exports ==
    CASE kind = "IntPt" -> IntPtExports
      [] kind = "Nodal" -> NodalExports
      [] OTHER -> << [title |-> <<dataName>>, dataSet |-> resultData[1]] >>

\* what saveCSV raises before any file is touched
SaveError ==
    CASE kind = "IntPt" /\ "__methodFlag" \notin attrs -> "AttributeError"
      [] kind = "IntPt" /\ "__methodFlag" \in attrs
           /\ methodFlag = Some("fetchIntPtData") /\ intPtLabels = None
           -> "TypeError"
      [] kind = "IntPt" /\ "__methodFlag" \in attrs
           /\ methodFlag = Some("fetchNodalData") /\ nodeLabels = None
           -> "AttributeError"
      [] kind = "Nodal" /\ "_componentLabels" \notin attrs -> "AttributeError"
      [] kind = "Nodal" /\ "_componentLabels" \in attrs /\ resultData = None
           -> "TypeError"
      [] OTHER -> IF LabelsToWrite = None THEN "Exception" ELSE "ok"

\* the directory after the calls k..Len(ex); the call numbered fail is
\* refused a write once its header lines are out, and the loop ends there
RECURSIVE SavedFrom(_, _, _, _, _)
SavedFrom(ex, k, fail, head, dir) ==
    IF k > Len(ex) THEN dir
    ELSE IF k = fail
    THEN (saveFileName(ex[k].title) :> CsvHeadOnly(ex[k].dataSet, head))
             @@ check_delete(saveFileName(ex[k].title), dir)
    ELSE SavedFrom(ex, k + 1, fail, head,
             (saveFileName(ex[k].title) :> CsvFile(ex[k].dataSet, head))
                 @@ check_delete(saveFileName(ex[k].title), dir))

\* the names of the files opened by the calls 1..n
OpenedNames(ex, n) == [k \in 1..n |-> saveFileName(ex[k].title)]

Saved(ex, fail) ==
    /\ files' = SavedFrom(ex, 1, fail, LabelsToWrite, files)
    /\ last' = [NoCall EXCEPT !.method = "saveCSV",
                   !.outcome = IF fail = 0 THEN "ok" ELSE "IOError",
                   !.written = OpenedNames(ex, IF fail = 0 THEN Len(ex) ELSE fail)]

\* a variant that clears the default file name before it looks at the results
saveCSVDeletingFirst ==
    /\ IF SaveError # "ok"
       THEN /\ last' = [NoCall EXCEPT !.method = "saveCSV", !.outcome = SaveError]
            /\ files' = check_delete(saveFileName(<<dataName>>), files)
       ELSE \E fail \in 0..Len(Exports) : Saved(Exports, fail)
    /\ UNCHANGED <<archive, object, others, nOpen>>

\* IntPtVariable.saveCSV, NodalVariable.saveCSV, ElementVariable.saveCSV
saveCSV ==
    /\ IF SaveError # "ok"
       THEN /\ last' = [NoCall EXCEPT !.method = "saveCSV", !.outcome = SaveError]
            /\ UNCHANGED files
       ELSE \E fail \in 0..Len(Exports) : Saved(Exports, fail)
    /\ UNCHANGED <<archive, object, others, nOpen>>

\* ------------------------------------ the functions of odbFetchFieldOutput
Extractors ==
    {"getNodalPEEQ", "getNodalMises", "getNodalPressure", "getNodalInv3",
     "getNodalCoords", "getNodalDispl", "getNodalReaction", "getNodalReactionSum"}

ScalarExtractors ==
    {"getNodalPEEQ", "getNodalMises", "getNodalPressure", "getNodalInv3"}

\* keyName of each function
ExtractorKey(fn) ==
    CASE fn = "getNodalPEEQ" -> "PEEQ"
      [] fn \in {"getNodalMises", "getNodalPressure", "getNodalInv3"} -> "S"
      [] fn = "getNodalCoords" -> "COORD"
      [] fn = "getNodalDispl" -> "U"
      [] OTHER -> "RF"

\* dataName of the scalar functions, and the attribute of a value they read
ExtractorData(fn) ==
    CASE fn = "getNodalPEEQ" -> [dataName |-> "PEEQ", attrib |-> "data"]
      [] fn = "getNodalMises" -> [dataName |-> "MISES", attrib |-> "mises"]
      [] fn = "getNodalPressure" -> [dataName |-> "PRESS", attrib |-> "press"]
      [] OTHER -> [dataName |-> "INV3", attrib |-> "inv3"]

\* odb.steps[testStep].frames[0].fieldOutputs[keyName].componentLabels
ComponentsOf(key) ==
    CASE key = "COORD" -> << <<"COOR1">>, <<"COOR2">> >>
      [] key = "RF" -> << <<"RF1">>, <<"RF2">> >>
      [] OTHER -> Components

\* runCompletion.append(frame.frameValue + stepNumber): stepNumber counts
\* whole units of time, two halves each
runCompletionOf(frame) == frame.frameValue + 2 * frame.step

\* numpy.mean of the values of one node, in the order of arrival
MeanAtNode(values, attrib, label) ==
    NumpyMean([k \in 1..Len(SelectSeq(values, LAMBDA v : v.nodeLabel = label)) |->
                  getattr(SelectSeq(values, LAMBDA v : v.nodeLabel = label)[k], attrib)])

\* resultRF[frameNumber,dim] += value.data[dim]
SummedReaction(values, dim) ==
    Float(SumSeq([k \in 1..Len(values) |-> values[k].data[dim]]))

\* the row of one frame: one mean per node, one vector per node, or one sum
\* per component
ExtractedRow(fn, frame, mySet, labels) ==
    IF fn \in ScalarExtractors
    THEN [i \in 1..Len(labels) |->
             MeanAtNode(ElementNodalOnNodes(frame, mySet),
                        ExtractorData(fn).attrib, labels[i])]
    ELSE IF fn = "getNodalReactionSum"
    THEN [dim \in 1..Len(Components) |->
             SummedReaction(NodalOnNodes(frame, mySet), dim)]
    ELSE NodalOutputValues(labels, NodalOnNodes(frame, mySet)).row

\* the loop over the steps and frames: every frame adds a marker and a row;
\* a frame without the key raises KeyError
RECURSIVE ExtractLoop(_, _, _, _, _, _)
ExtractLoop(fn, fr, k, mySet, labels, acc) ==
    IF k > Len(fr) THEN acc
    ELSE IF ExtractorKey(fn) \notin fr[k].keys
    THEN [acc EXCEPT !.err = "KeyError",
                     !.runCompletion = Append(@, runCompletionOf(fr[k]))]
    ELSE ExtractLoop(fn, fr, k + 1, mySet, labels,
             [acc EXCEPT !.runCompletion = Append(@, runCompletionOf(fr[k])),
                         !.result = Append(@, ExtractedRow(fn, fr[k], mySet, labels))])

\* one line of saveOdbFieldDataCSV: a vector dataSet has no second index,
\* so str(dataSet[i]) is written
FieldLine(marker, row, n) ==
    [time |-> str(marker),
     fields |-> [k \in 1..n |->
                    IF row[1] = "vector" THEN str(row[2])
                    ELSE IF k <= Len(row[2]) THEN str(row[2][k]) ELSE str(row[2])]]

\* the file written by saveOdbFieldDataCSV
FieldCsv(runCompletion, nodes, dataSet) ==
    [line1 |-> "node (right):",
     labels |-> [k \in 1..Len(nodes) |-> str(nodes[k])],
     line2 |-> [k \in 1..Len(nodes) |-> "\"\""],
     lines |-> [i \in 1..Len(runCompletion) |->
                   FieldLine(runCompletion[i], dataSet[i], Len(nodes))],
     closed |-> TRUE]

\* the calls of saveOdbFieldDataCSV each function makes once the archive is
\* closed: <<dataTitle, nodeLabels, dataSet>>
FieldExports(fn, labels, result) ==
    IF fn \in ScalarExtractors
    THEN << [title |-> <<ExtractorData(fn).dataName>>, nodes |-> labels,
             dataSet |-> [i \in 1..Len(result) |-> <<"matrix", result[i]>>]] >>
    ELSE IF fn = "getNodalReactionSum"
    THEN [dim \in 1..Len(Components) |->
             [title |-> <<"summed">> \o ComponentsOf("RF")[dim], nodes |-> <<0>>,
              dataSet |-> [i \in 1..Len(result) |-> <<"vector", result[i][dim]>>]]]
    ELSE [dim \in 1..Len(Components) |->
             [title |-> ComponentsOf(ExtractorKey(fn))[dim], nodes |-> labels,
              dataSet |-> [i \in 1..Len(result) |->
                              <<"matrix", [p \in 1..Len(result[i]) |-> result[i][p][dim]]>>]]]

FieldFileName(name, title) ==
    safe_filename([odb |-> splitext("job.odb"), set |-> name, title |-> title])

RECURSIVE FieldSaved(_, _, _, _, _)
FieldSaved(ex, k, name, runCompletion, dir) ==
    IF k > Len(ex) THEN dir
    ELSE FieldSaved(ex, k + 1, name, runCompletion,
             (FieldFileName(name, ex[k].title)
                  :> FieldCsv(runCompletion, ex[k].nodes, ex[k].dataSet))
                 @@ check_delete(FieldFileName(name, ex[k].title), dir))

ExtractExit(fn, looked, probed) ==
    [call |-> [NoCall EXCEPT !.method = fn, !.outcome = "exit", !.opened = TRUE,
                             !.closed = TRUE, !.setLookup = looked, !.probed = probed],
     files |-> files]

ExtractDone(fn, name, labels, w) ==
    IF w.err # "ok"
    THEN [call |-> [NoCall EXCEPT !.method = fn, !.outcome = w.err, !.opened = TRUE,
                                  !.setLookup = TRUE, !.probed = TRUE,
                                  !.numframes = Some(Len(AllFrames)),
                                  !.visited = Len(w.result)],
          files |-> files]
    ELSE [call |-> [NoCall EXCEPT !.method = fn, !.outcome = "ok", !.opened = TRUE,
                                  !.closed = TRUE,
                                  !.setLookup = TRUE, !.probed = TRUE,
                                  !.numframes = Some(Len(AllFrames)),
                                  !.visited = Len(w.result),
                                  !.written =
                                      [k \in 1..Len(FieldExports(fn, labels, w.result)) |->
                                          FieldFileName(name,
                                              FieldExports(fn, labels, w.result)[k].title)]],
          files |-> FieldSaved(FieldExports(fn, labels, w.result), 1, name,
                               w.runCompletion, files)]

\* getNodalPEEQ(odbName, nodeSetName) and its seven siblings
Extracted(fn, name) ==
    IF name \notin DOMAIN nodeSets THEN ExtractExit(fn, TRUE, FALSE)
    ELSE IF ExtractorKey(fn) \notin LastFrameKeys THEN ExtractExit(fn, TRUE, TRUE)
    ELSE ExtractDone(fn, name, Sort(nodeSets[name]),
             ExtractLoop(fn, AllFrames, 1, nodeSets[name], Sort(nodeSets[name]),
                 [err |-> "ok", runCompletion |-> <<>>, result |-> <<>>]))

getNodal(fn, nodeSetName) ==
    /\ nOpen < MaxOpen
    /\ \E r \in {Extracted(fn, upper(nodeSetName))} :
           /\ last' = r.call
           /\ files' = r.files
           /\ nOpen' = nOpen + (IF r.call.opened /\ ~r.call.closed THEN 1 ELSE 0)
    /\ UNCHANGED <<archive, object, others>>

\* --------------------------------------------- InstanceMesh.fetchMesh
\* self.instanceName in k, for the names in use
Contains(part, whole) ==
    \/ part = whole
    \/ part = "PART" /\ whole \in {"PART-1", "PART-2"}

\* the first key that holds instanceName, or None
RECURSIVE FirstKeyWith(_, _)
FirstKeyWith(name, k) ==
    IF k > Len(instances) THEN None
    ELSE IF Contains(name, instances[k]) THEN Some(instances[k])
    ELSE FirstKeyWith(name, k + 1)

\* iKey
InstanceKey ==
    IF instanceMesh.exactKey THEN Some(instanceMesh.instanceName)
    ELSE FirstKeyWith(instanceMesh.instanceName, 1)

\* n.coordinates of a node of the instance
Coordinates(n) == <<n, 0, 0>>

\* what fetchMesh does: <<outcome, closed>>
MeshOutcome ==
    IF InstanceKey = None
    THEN \* odb.close(), then the message cannot be built from None
        [outcome |-> "TypeError", closed |-> TRUE]
    ELSE IF ~InSeq(InstanceKey[1], instances)
    THEN \* odb.close(); raise KeyError
        [outcome |-> "KeyError", closed |-> TRUE]
    ELSE IF Len(mesh.conn) = 0
    THEN \* myInstance.elements[0]
        [outcome |-> "IndexError", closed |-> FALSE]
    ELSE \* return, with no odb.close()
        [outcome |-> "ok", closed |-> FALSE]

fetchMesh ==
    /\ nOpen < MaxOpen
    /\ last' = [NoCall EXCEPT !.method = "fetchMesh", !.outcome = MeshOutcome.outcome,
                              !.opened = TRUE, !.closed = MeshOutcome.closed]
    /\ nOpen' = nOpen + (IF MeshOutcome.closed THEN 0 ELSE 1)
    /\ IF MeshOutcome.outcome = "ok"
       THEN instanceMesh' =
                [instanceMesh EXCEPT
                    !.nodes = Some(SetToSeq(mesh.nodes)),
                    !.nodesCoords = Some([i \in 1..Cardinality(mesh.nodes) |->
                                             Coordinates(SetToSeq(mesh.nodes)[i])]),
                    !.elements = Some([i \in 1..Len(mesh.conn) |-> i]),
                    !.elemConnect = Some(mesh.conn),
                    !.elemType = Some("CAX8R")]
       ELSE UNCHANGED instanceMesh
    /\ UNCHANGED <<archive, object, crackVariable, files>>

\* ------------------- CrackVariable.fetchJintegral and getJintegral
PIBATCH == "ElementSet . PIBATCH"
ALL_ELEMENTS == "ElementSet . ALL ELEMENTS"

\* odb.steps[stepName].historyRegions[histKey].historyOutputs exists
HasRegion(stepName, histKey) ==
    stepName \in history.steps /\ histKey \in history.regions

\* the outputs described as J-integral, and those of them naming the crack
IsJ(out) == out.jint
OfCrack(out, crackName) == out.jint /\ out.crack = crackName

\* runCompletion: the first column of the first J-integral output
FirstJ == SelectSeq(history.outputs, IsJ)

Column(data, c) == [i \in 1..Len(data) |-> data[i][c]]

\* contourLabels and contourNumbers in key order
ContourLabels(outs) == [k \in 1..Len(outs) |-> <<outs[k].label, IntStr(outs[k].contour)>>]
ContourNumbers(outs) == [k \in 1..Len(outs) |-> IntStr(outs[k].contour)]

\* the last output with the contour number c, or None
RECURSIVE LastOfContour(_, _, _)
LastOfContour(outs, c, k) ==
    IF k = 0 THEN None
    ELSE IF outs[k].contour = c THEN Some(outs[k])
    ELSE LastOfContour(outs, c, k - 1)

\* fetchJintegral: resultData[:,contour-1] = data[:,1]
ByContourNumber(outs, numFrames) ==
    [i \in 1..numFrames |->
        [c \in 1..Len(outs) |->
            IF LastOfContour(outs, c, Len(outs)) = None THEN Float(0)
            ELSE Float(LastOfContour(outs, c, Len(outs))[1].data[i][2])]]

\* getJintegral: dataSet[i,contourIndex] = data[i][1]
ByKeyOrder(outs, numFrames) ==
    [i \in 1..numFrames |-> [c \in 1..Len(outs) |-> Float(outs[c].data[i][2])]]

\* what fetchJintegral does; the archive is closed on no path
JintegralOutcome(stepName, crackName) ==
    IF ~HasRegion(stepName, PIBATCH) /\ ~HasRegion(stepName, ALL_ELEMENTS)
    THEN "KeyError"
    ELSE IF FirstJ = <<>> THEN "UnboundLocalError"
    ELSE IF \E k \in 1..Len(SelectSeq(history.outputs, LAMBDA o : OfCrack(o, crackName))) :
                SelectSeq(history.outputs, LAMBDA o : OfCrack(o, crackName))[k].contour
                    > Len(SelectSeq(history.outputs, LAMBDA o : OfCrack(o, crackName)))
    THEN "IndexError"
    ELSE "ok"

Fetched(v, outs) ==
    [v EXCEPT !.description = Some("J-integral"),
              !.runCompletion = Some(Column(FirstJ[1].data, 1)),
              !.contourLabels = Some(ContourLabels(outs)),
              !.contourNumbers = Some(ContourNumbers(outs)),
              !.resultData = Some(ByContourNumber(outs, Len(FirstJ[1].data)))]

fetchJintegral ==
    /\ nOpen < MaxOpen
    /\ \E o \in {JintegralOutcome(crackVariable.stepName, crackVariable.crackName)} :
           /\ last' = [NoCall EXCEPT !.method = "fetchJintegral", !.outcome = o,
                                     !.opened = TRUE]
           /\ IF o = "ok"
              THEN crackVariable' =
                       Fetched(crackVariable,
                               SelectSeq(history.outputs,
                                   LAMBDA x : OfCrack(x, crackVariable.crackName)))
              ELSE UNCHANGED crackVariable
    /\ nOpen' = nOpen + 1
    /\ UNCHANGED <<archive, object, instanceMesh, files>>

\* saveContourDataCSV: odbName + '_' + description + '.csv'
ContourFileName(crackName) ==
    safe_filename([odb |-> splitext("job.odb"), set |-> "",
                   title |-> <<"J-integral", crackName>>])

ContourCsv(runCompletion, outs, dataSet) ==
    [line1 |-> "\"\"",
     labels |-> ContourLabels(outs),
     line2 |-> ContourNumbers(outs),
     lines |-> [i \in 1..Len(runCompletion) |->
                   [time |-> str(runCompletion[i]),
                    fields |-> [k \in 1..Len(outs) |-> str(dataSet[i][k])]]],
     closed |-> TRUE]

\* what getJintegral does; the archive is closed on no path
FunctionOutcome(stepName, crackName, converted) ==
    IF ~HasRegion(stepName, IF converted THEN PIBATCH ELSE ALL_ELEMENTS)
    THEN "KeyError"
    ELSE IF \E k \in 1..Len(history.outputs) :
                /\ OfCrack(history.outputs[k], crackName)
                /\ Len(history.outputs[k].data) > Len(FirstJ[1].data)
    THEN \* dataSet[i,contourIndex] beyond numframes rows
        "IndexError"
    ELSE "ok"

Contoured(crackName, outs) ==
    (ContourFileName(crackName)
         :> ContourCsv(IF FirstJ = <<>> THEN <<>> ELSE Column(FirstJ[1].data, 1), outs,
                       ByKeyOrder(outs, IF FirstJ = <<>> THEN 0 ELSE Len(FirstJ[1].data))))
        @@ check_delete(ContourFileName(crackName), files)

getJintegral(stepName, crackName, converted) ==
    /\ nOpen < MaxOpen
    /\ \E o \in {FunctionOutcome(stepName, upper(crackName), converted)} :
           /\ last' = [NoCall EXCEPT !.method = "getJintegral", !.outcome = o,
                                     !.opened = TRUE,
                                     !.written = IF o = "ok"
                                                 THEN <<ContourFileName(upper(crackName))>>
                                                 ELSE <<>>]
           /\ IF o = "ok"
              THEN files' = Contoured(upper(crackName),
                                SelectSeq(history.outputs,
                                    LAMBDA x : OfCrack(x, upper(crackName))))
              ELSE UNCHANGED files
    /\ nOpen' = nOpen + 1
    /\ UNCHANGED <<archive, object, others>>

\* ------------------------------------------------------------ the setters
reset ==
    /\ totalTime'     = None
    /\ nodeLabels'    = None
    /\ elementLabels' = None
    /\ intPtLabels'   = None
    /\ resultData'    = None

\* NodalVariable.componentLabels: return self._componentLabels
getComponentLabels ==
    IF "_componentLabels" \in attrs THEN componentLabels ELSE <<"AttributeError">>

\* Python values handed to a setter: a str or something else
isinstance(v, type) == v[1] = type

SetOdbPath(v) ==
    /\ IF isinstance(v, "str")
       THEN /\ odbPath' = v[2]
            /\ reset
            /\ last' = [NoCall EXCEPT !.method = "odbPath", !.outcome = "ok",
                                      !.arg = Some(v[2])]
       ELSE /\ last' = [NoCall EXCEPT !.method = "odbPath", !.outcome = "TypeError"]
            /\ UNCHANGED <<odbPath, results>>
    /\ UNCHANGED <<archive, files, others, kind, dataName, setName, componentLabels,
                   methodFlag, attrs, nOpen>>

SetDataName(s) ==
    /\ dataName' = upper(s)
    /\ reset
    /\ last' = [NoCall EXCEPT !.method = "dataName", !.outcome = "ok", !.arg = Some(s)]
    /\ UNCHANGED <<archive, files, others, kind, odbPath, setName, componentLabels, methodFlag, attrs, nOpen>>

SetSetName(s) ==
    /\ setName' = upper(s)
    /\ reset
    /\ last' = [NoCall EXCEPT !.method = "setName", !.outcome = "ok", !.arg = Some(s)]
    /\ UNCHANGED <<archive, files, others, kind, odbPath, dataName, componentLabels, methodFlag, attrs, nOpen>>

\* ------------------------------------------------------------- the inputs
AllKeys == {"PEEQ", "S", "U", "COORD", "RF", "EVOL"}

\* two bar elements sharing node 2; in MeshGap the node labels skip 3
MeshA   == [nodes |-> {1, 2, 3}, conn |-> (1 :> <<1, 2>> @@ 2 :> <<2, 3>>)]
MeshGap == [nodes |-> {1, 2, 4}, conn |-> (1 :> <<1, 2>> @@ 2 :> <<2, 4>>)]

\* phase 1 with frame values 0.0, 0.5, 1.0 and phase 2 (starting at 1.0) with 0.0, 1.0
ExampleSteps ==
    << [totalTime |-> 0, frames |-> <<0, 1, 2>>, keys |-> AllKeys],
       [totalTime |-> 2, frames |-> <<0, 2>>,    keys |-> AllKeys] >>

\* PEEQ requested in the second step only
LatePeeqSteps ==
    << [totalTime |-> 0, frames |-> <<0, 2>>, keys |-> AllKeys \ {"PEEQ"}],
       [totalTime |-> 2, frames |-> <<0, 2>>, keys |-> AllKeys] >>

\* PEEQ and U not requested in the last step
NoPeeqSteps ==
    << [totalTime |-> 0, frames |-> <<0, 2>>, keys |-> AllKeys],
       [totalTime |-> 2, frames |-> <<0, 2>>, keys |-> {"S", "EVOL"}] >>

FrameLists == {SetToSeq(S) : S \in (SUBSET (0..MaxTime)) \ {{}}}
StepRecords == [totalTime : 0..MaxTime, frames : FrameLists, keys : {AllKeys}]
\* step.totalTime is the time spent before the step: 0 for the first step
\* and never less than for the step before
Timelines ==
    UNION {{t \in [1..n -> StepRecords] :
               /\ t[1].totalTime = 0
               /\ \A i \in 1..(n - 1) : t[i].totalTime <= t[i + 1].totalTime}
           : n \in 1..MaxSteps}

Elems == {1, 2}
BaseValues == [Elems -> [1..2 -> 0..MaxVal]]
FixedBase == (1 :> <<0, 4>> @@ 2 :> <<1, 0>>)
\* node 2 shared by two elements reporting 3.0 and 5.0, node 3 with the one value 7.0
ExampleBase == (1 :> <<0, 3>> @@ 2 :> <<5, 7>>)

\* the nodal field: component c of node n in a frame is nodal[c] + n + the frame's number
NodalValues == [1..Len(Components) -> 0..MaxVal]
FixedNodal == <<10, 20>>

SetsOf(m) ==
    [nodes |-> ("NSET" :> Reverse(SetToSeq(m.nodes))
                @@ "PART" :> Tail(Reverse(SetToSeq(m.nodes)))),
     elems |-> ("ESET" :> <<2, 1>> @@ "PART" :> <<2, 1>>)]

Kinds == {"IntPt", "Nodal", "Element"}
DataNames == {"PEEQ", "peeq", "Mises", "PRESS", "INV3", "U", "EVOL", "FOO"}
SetNames == {"NSET", "nset", "Eset", "PART", "part", "NOSET"}
\* two paths to the one archive, and a value that is no string
OdbPaths == {<<"str", "job.odb">>, <<"str", "C:\\run\\job.odb">>, <<"int", 5>>}
NoFiles == [f \in {} |-> None]

\* fieldVariable.__init__ (NodalVariable.__init__ adds __componentLabels)
Constructed(k, d, s) ==
    /\ kind = k
    /\ odbPath = "job.odb"
    /\ dataName = upper(d)
    /\ setName = upper(s)
    /\ totalTime = None
    /\ nodeLabels = None
    /\ elementLabels = None
    /\ intPtLabels = None
    /\ resultData = None
    /\ componentLabels = None
    /\ methodFlag = None
    /\ attrs = IF k = "Nodal" THEN {"__componentLabels"} ELSE {}
    /\ nOpen = 0
    /\ last = NoCall

\* InstanceMesh.__init__ and CrackVariable.__init__
InstanceMesh(instanceName, exactKey) ==
    [instanceName |-> upper(instanceName), exactKey |-> exactKey,
     nodes |-> None, nodesCoords |-> None, elements |-> None,
     elemConnect |-> None, elemType |-> None]

CrackVariable(stepName, crackName) ==
    [stepName |-> stepName, crackName |-> upper(crackName),
     description |-> None, runCompletion |-> None, contourLabels |-> None,
     contourNumbers |-> None, resultData |-> None]

\* one history output of a region: name ..._<label>_<contour>, description,
\* data = ((time, value), ...)
Jint(crack, contour, v) ==
    [crack |-> crack, label |-> "Contour", contour |-> contour, jint |-> TRUE,
     data |-> << <<0, v>>, <<2, v + 1>> >>]

OtherOutput ==
    [crack |-> "", label |-> "", contour |-> 0, jint |-> FALSE,
     data |-> << <<0, 0>>, <<2, 0>> >>]

ExampleHistory ==
    [steps |-> {"Step-1"}, regions |-> {ALL_ELEMENTS},
     outputs |-> <<Jint("CRACK-1", 2, 5), OtherOutput, Jint("CRACK-1", 1, 3)>>]

\* a converted archive whose contours are numbered 1 and 3
ConvertedHistory ==
    [steps |-> {"Step-1"}, regions |-> {PIBATCH},
     outputs |-> <<Jint("CRACK-1", 1, 3), Jint("CRACK-1", 3, 7)>>]

\* no J-integral was requested
NoJHistory ==
    [steps |-> {"Step-1"}, regions |-> {ALL_ELEMENTS}, outputs |-> <<OtherOutput>>]

\* the mesh and crack objects of the specifications that do not use them
Bystanders ==
    /\ instances = <<"PART-1">>
    /\ history = ExampleHistory
    /\ instanceMesh = InstanceMesh("PART-1", TRUE)
    /\ crackVariable = CrackVariable("Step-1", "CRACK-1")

\* an instance without elements
NoElements == [nodes |-> {1}, conn |-> <<>>]

\* ------------------------------------------------------ specifications
\* objects of every class over a few archives, with the setters
Init ==
    /\ steps \in {ExampleSteps, LatePeeqSteps, NoPeeqSteps}
    /\ mesh \in {MeshA, MeshGap}
    /\ nodeSets = SetsOf(mesh).nodes
    /\ elementSets = SetsOf(mesh).elems
    /\ carry = Elems
    /\ base = FixedBase
    /\ nodal = FixedNodal
    /\ rot = 0
    /\ rev = FALSE
    /\ files = NoFiles
    /\ Bystanders
    /\ \E k \in Kinds, d \in {"PEEQ", "peeq", "U", "u", "EVOL"}, s \in {"PART", "part"} :
           Constructed(k, d, s)

Next ==
    \/ fetchNodalExtrap
    \/ fetchNodalAverage
    \/ fetchIntPtData
    \/ fetchElementAverage
    \/ fetchNodalOutput
    \/ sumNodalOutput
    \/ avgNodalOutput
    \/ fetchInitialElementVolume
    \/ \E v \in OdbPaths : SetOdbPath(v)
    \/ \E s \in DataNames : SetDataName(s)
    \/ \E s \in SetNames : SetSetName(s)

Spec == Init /\ [][Next]_vars

\* the methods that walk the steps and frames
NextFetch ==
    \/ fetchNodalExtrap
    \/ fetchNodalAverage
    \/ fetchIntPtData
    \/ fetchElementAverage
    \/ fetchNodalOutput

\* the averaging over every raw value assignment and delivery order
InitAvg ==
    /\ steps \in {ExampleSteps}
    /\ mesh = MeshA
    /\ nodeSets \in {("PART" :> <<3, 1, 2>>), ("PART" :> <<3, 2>>)}
    /\ elementSets = SetsOf(MeshA).elems
    /\ rot \in 0..MaxRot
    /\ rev \in BOOLEAN
    /\ files = NoFiles
    /\ Bystanders
    /\ \/ /\ carry \in SUBSET Elems
          /\ base \in BaseValues \cup {ExampleBase}
          /\ nodal = FixedNodal
          /\ \E d \in {"PEEQ", "Mises"} : Constructed("IntPt", d, "PART")
       \/ /\ carry = Elems
          /\ base = FixedBase
          /\ nodal \in NodalValues \cup {FixedNodal}
          /\ Constructed("Nodal", "U", "PART")

\* the methods whose columns follow the sorted labels
NextAvg ==
    \/ fetchNodalAverage
    \/ fetchElementAverage
    \/ fetchNodalOutput
    \/ sumNodalOutput
    \/ avgNodalOutput

SpecAvg == InitAvg /\ [][NextAvg]_vars

\* the frame walk over every small sequence of steps
InitFrames ==
    /\ steps \in Timelines \cup {ExampleSteps}
    /\ mesh = MeshA
    /\ nodeSets = SetsOf(MeshA).nodes
    /\ elementSets = SetsOf(MeshA).elems
    /\ carry = Elems
    /\ base = FixedBase
    /\ nodal = FixedNodal
    /\ rot = 0
    /\ rev = FALSE
    /\ files = NoFiles
    /\ Bystanders
    /\ \E kd \in {<<"IntPt", "PEEQ">>, <<"Nodal", "U">>} :
           Constructed(kd[1], kd[2], "PART")

SpecFrames == InitFrames /\ [][NextFetch]_vars

\* an earlier export of the same archive, set and data
OldCsv ==
    [line1 |-> "node (right):", labels |-> <<>>, line2 |-> <<>>, lines |-> <<>>,
     closed |-> TRUE]

OldNames ==
    {[odb |-> "job", set |-> "PART", title |-> t] :
        t \in {<<"PEEQ">>, <<"PEEQ", "_IP", "1">>, <<"PEEQ", "_NOD", "0">>,
               <<"U1">>, <<"EVOL">>}}

\* one function of odbFetchFieldOutput run by a script, over every small
\* sequence of steps
InitExtract ==
    /\ steps \in Timelines \cup {ExampleSteps, LatePeeqSteps, NoPeeqSteps}
    /\ mesh = MeshA
    /\ nodeSets = SetsOf(MeshA).nodes
    /\ elementSets = SetsOf(MeshA).elems
    /\ carry = Elems
    /\ base = FixedBase
    /\ nodal = FixedNodal
    /\ rot = 0
    /\ rev = FALSE
    /\ files = NoFiles
    /\ Bystanders
    /\ Constructed("IntPt", "PEEQ", "PART")

NextExtract ==
    \E fn \in Extractors, s \in {"part", "NOSET"} :
        last.method = "none" /\ getNodal(fn, s)

SpecExtract == InitExtract /\ [][NextExtract]_vars

\* the mesh of an instance and the J-integrals of a crack
\* CrackVariable.saveCSV: the table of the object's own labels and data
CrackCsv(v) ==
    [line1 |-> "\"\"",
     labels |-> v.contourLabels[1],
     line2 |-> v.contourNumbers[1],
     lines |-> [i \in 1..Len(v.runCompletion[1]) |->
                   [time |-> str(v.runCompletion[1][i]),
                    fields |-> [k \in 1..Len(v.contourLabels[1]) |->
                                   str(v.resultData[1][i][k])]]],
     closed |-> TRUE]

\* odbName + '_' + self.description + '_' + self.crackName + '.csv' raises
\* TypeError while description is None
CrackVariable_saveCSV ==
    /\ IF crackVariable.description = None
       THEN /\ last' = [NoCall EXCEPT !.method = "CrackVariable.saveCSV",
                                      !.outcome = "TypeError"]
            /\ UNCHANGED files
       ELSE /\ last' = [NoCall EXCEPT !.method = "CrackVariable.saveCSV",
                                      !.outcome = "ok",
                                      !.written = <<ContourFileName(crackVariable.crackName)>>]
            /\ files' = (ContourFileName(crackVariable.crackName) :> CrackCsv(crackVariable))
                            @@ check_delete(ContourFileName(crackVariable.crackName), files)
    /\ UNCHANGED <<archive, object, others, nOpen>>

InitHandles ==
    /\ steps = ExampleSteps
    /\ mesh \in {MeshA, NoElements}
    /\ nodeSets = SetsOf(MeshA).nodes
    /\ elementSets = SetsOf(MeshA).elems
    /\ carry = Elems
    /\ base = FixedBase
    /\ nodal = FixedNodal
    /\ rot = 0
    /\ rev = FALSE
    /\ instances \in {<<"PART-1">>, <<"PLATE-1", "PART-1", "PART-2">>}
    /\ history \in {ExampleHistory, ConvertedHistory, NoJHistory}
    /\ \E n \in {"PART-1", "part", "BOLT"}, e \in BOOLEAN :
           instanceMesh = InstanceMesh(n, e)
    /\ \E st \in {"Step-1", "Step-9"}, c \in {"crack-1", "CRACK-2"} :
           crackVariable = CrackVariable(st, c)
    /\ files = NoFiles
    /\ Constructed("IntPt", "PEEQ", "PART")

NextHandles ==
    \/ fetchMesh
    \/ fetchJintegral
    \/ CrackVariable_saveCSV
    \/ \E st \in {"Step-1", "Step-9"}, c \in {"crack-1", "CRACK-2"}, converted \in BOOLEAN :
           getJintegral(st, c, converted)

SpecHandles == InitHandles /\ [][NextHandles]_vars

\* the fetches and the export of one object, in a directory that may hold
\* earlier exports
InitCSV ==
    /\ steps = ExampleSteps
    /\ mesh = MeshA
    /\ nodeSets = ("PART" :> <<3, 1, 2>>)
    /\ elementSets = SetsOf(MeshA).elems
    /\ carry = Elems
    /\ base = ExampleBase
    /\ nodal = FixedNodal
    /\ rot = 0
    /\ rev = FALSE
    /\ files \in {NoFiles, [f \in OldNames |-> OldCsv]}
    /\ Bystanders
    /\ \E kd \in {<<"IntPt", "PEEQ">>, <<"Nodal", "U">>, <<"Element", "EVOL">>} :
           Constructed(kd[1], kd[2], "PART")

\* a script fetches, then exports: nothing is fetched once files are written
Fetching == last.method # "saveCSV"

NextCSV ==
    \/ Fetching /\ fetchNodalExtrap
    \/ Fetching /\ fetchNodalAverage
    \/ Fetching /\ fetchIntPtData
    \/ Fetching /\ fetchElementAverage
    \/ Fetching /\ fetchNodalOutput
    \/ Fetching /\ sumNodalOutput
    \/ Fetching /\ avgNodalOutput
    \/ Fetching /\ fetchInitialElementVolume
    \/ saveCSV

SpecCSV == InitCSV /\ [][NextCSV]_vars

\* one element-based object over an archive that delivers its values in any
\* rotation or reversal of the stored order, with any raw values
InitOrder ==
    /\ steps = ExampleSteps
    /\ mesh = MeshA
    /\ nodeSets = SetsOf(MeshA).nodes
    /\ elementSets = SetsOf(MeshA).elems
    /\ carry = Elems
    /\ base \in BaseValues \cup {ExampleBase}
    /\ nodal = FixedNodal
    /\ rot \in 0..MaxRot
    /\ rev \in BOOLEAN
    /\ files = NoFiles
    /\ Bystanders
    /\ \E kd \in {<<"IntPt", "PEEQ">>, <<"Element", "EVOL">>} :
           Constructed(kd[1], kd[2], "PART")

NextOrder ==
    \/ fetchNodalExtrap
    \/ fetchIntPtData
    \/ fetchElementAverage
    \/ fetchInitialElementVolume

SpecOrder == InitOrder /\ [][NextOrder]_vars

\* fetches, assignments to the three settable attributes and exports of one
\* object, in a directory that may hold earlier exports, up to the first
\* export that writes
Unsaved == \A n \in DOMAIN files : files[n] = OldCsv

NextReset ==
    \/ Unsaved /\ fetchNodalExtrap
    \/ Unsaved /\ fetchNodalAverage
    \/ Unsaved /\ fetchIntPtData
    \/ Unsaved /\ fetchElementAverage
    \/ Unsaved /\ fetchNodalOutput
    \/ Unsaved /\ sumNodalOutput
    \/ Unsaved /\ avgNodalOutput
    \/ Unsaved /\ fetchInitialElementVolume
    \/ SetOdbPath(<<"str", "job.odb">>)
    \/ SetDataName(dataName)
    \/ \E s \in {"PART", "part"} : SetSetName(s)
    \/ saveCSV

SpecReset == InitCSV /\ [][NextReset]_vars

\* ================================================================ properties
FetchMethods == {"fetchNodalAverage", "fetchElementAverage", "fetchNodalOutput"}

\* the class-based fetch methods that walk the steps and frames
WalkMethods == FetchMethods \cup {"fetchNodalExtrap", "fetchIntPtData"}

AllFetchMethods == WalkMethods \cup {"fetchInitialElementVolume"}

Completed(m) == last.method = m /\ last.outcome = "ok"

MarkerOf(frame) == frame.totalTime + frame.frameValue

\* the first frame, in walk order, that carries marker m
FirstFrameAt(m) ==
    AllFrames[CHOOSE k \in 1..Len(AllFrames) :
                 /\ MarkerOf(AllFrames[k]) = m
                 /\ \A j \in 1..(k - 1) : MarkerOf(AllFrames[j]) # m]

RECURSIVE SumOver(_, _)
SumOver(S, a) ==
    IF S = {} THEN 0
    ELSE LET v == CHOOSE v \in S : TRUE
         IN getattr(v, a) + SumOver(S \ {v}, a)

\* x is sum / k as a fraction; 0.0 / 0.0 is nan
IsQuotient(x, sum, k) ==
    IF k = 0 THEN x = NaN ELSE x[2] > 0 /\ x[1] * k = sum * x[2]

IsMeanOf(x, S) == IsQuotient(x, SumOver(S, abqAttrib[1]), Cardinality(S))

SamplesAtNode(frame, n) ==
    {v \in Range(ElementNodalOnNodes(frame, nodeSets[setName])) : v.nodeLabel = n}

SamplesAtElement(frame, e) ==
    {v \in Range(IntPtOnElements(frame, elementSets[setName])) : v.elementLabel = e}

Ascending(s) == \A i \in 1..(Len(s) - 1) : s[i] < s[i + 1]

\* C1: after fetchNodalAverage, resultData[frame, position(node)] is the sum of
\* the frame's ELEMENT_NODAL samples at that node divided by their number, for
\* every row (non-duplicate frame) and every node of the set; samples 3.0 and
\* 5.0 give 4.0 and the single sample 7.0 gives 7.0.
C1_NodalAverageIsMean ==
    Completed("fetchNodalAverage") =>
        /\ Range(nodeLabels[1]) = Range(nodeSets[setName])
        /\ Len(resultData[1]) = Len(totalTime[1])
        /\ \A i \in 1..Len(totalTime[1]) : \A p \in 1..Len(nodeLabels[1]) :
               IsMeanOf(resultData[1][i][p],
                        SamplesAtNode(FirstFrameAt(totalTime[1][i]), nodeLabels[1][p]))
        /\ (/\ base = ExampleBase /\ carry = Elems /\ dataName = "PEEQ"
            /\ nodeSets[setName] = <<3, 2>>)
               => /\ nodeLabels[1] = <<2, 3>>
                  /\ resultData[1][1] = <<Float(4), Float(7)>>

C1_Witness ==
    /\ Completed("fetchNodalAverage")
    /\ base = ExampleBase /\ carry = Elems /\ dataName = "PEEQ" /\ rev
    /\ nodeSets[setName] = <<3, 2>>
    /\ resultData[1][1] = <<Float(4), Float(7)>>

\* C2: after fetchNodalAverage, fetchElementAverage and fetchNodalOutput the
\* output labels are the ascending sort of the resolved set, one tuple for all
\* frames, and column k of every row holds the value of label k whatever the
\* order in which the archive delivered the raw samples.
ResolvedSet ==
    IF last.method = "fetchElementAverage"
    THEN elementSets[setName] ELSE nodeSets[setName]

OutputLabels ==
    IF last.method = "fetchElementAverage" THEN elementLabels[1] ELSE nodeLabels[1]

RawNodal(frame, n) ==
    CHOOSE v \in Range(NodalOnNodes(frame, nodeSets[setName])) : v.nodeLabel = n

IsValueOf(x, frame, label) ==
    CASE last.method = "fetchNodalAverage" ->
             IsMeanOf(x, SamplesAtNode(frame, label))
      [] last.method = "fetchElementAverage" ->
             IsMeanOf(x, SamplesAtElement(frame, label))
      [] last.method = "fetchNodalOutput" ->
             x = [c \in 1..Len(Components) |-> Float(RawNodal(frame, label).data[c])]

C2_SortedLabelsAndColumns ==
    (last.method \in FetchMethods /\ last.outcome = "ok") =>
        /\ Ascending(OutputLabels)
        /\ Range(OutputLabels) = Range(ResolvedSet)
        /\ \A i \in 1..Len(totalTime[1]) :
               /\ Len(resultData[1][i]) = Len(OutputLabels)
               /\ \A k \in 1..Len(OutputLabels) :
                      IsValueOf(resultData[1][i][k],
                                FirstFrameAt(totalTime[1][i]), OutputLabels[k])

C2_Witness ==
    /\ Completed("fetchNodalOutput")
    /\ rev /\ rot = 1
    /\ nodeSets[setName] = <<3, 1, 2>>
    /\ nodeLabels = Some(<<1, 2, 3>>)
    /\ Len(totalTime[1]) > 1

\* C3: when the last frame of a step and the first frame of the next step have
\* the same marker step.totalTime + frame.frameValue, totalTime and resultData
\* hold exactly one entry / row for it (as for every marker of the archive);
\* the steps with frame values [0.0, 0.5, 1.0] and [0.0, 1.0] give the axis
\* [0.0, 0.5, 1.0, 2.0] (in half units <<0, 1, 2, 4>>) with 4 rows.
Occurrences(m, s) == Cardinality({i \in 1..Len(s) : s[i] = m})

BoundaryDuplicate ==
    \E k \in 1..(Len(steps) - 1) :
        steps[k].totalTime + steps[k].frames[Len(steps[k].frames)]
            = steps[k + 1].totalTime + steps[k + 1].frames[1]

C3_OneRowPerMarker ==
    (last.method \in WalkMethods /\ last.outcome = "ok") =>
        /\ \A k \in 1..Len(AllFrames) :
               Occurrences(MarkerOf(AllFrames[k]), totalTime[1]) = 1
        /\ Len(resultData[1]) = Len(totalTime[1])
        /\ steps = ExampleSteps =>
               totalTime[1] = <<0, 1, 2, 4>> /\ Len(resultData[1]) = 4

C3_Witness ==
    /\ last.method = "fetchNodalExtrap" /\ last.outcome = "ok"
    /\ BoundaryDuplicate
    /\ steps = ExampleSteps
    /\ totalTime = Some(<<0, 1, 2, 4>>)

\* C4: after any class-based fetch the snapshot axis totalTime is strictly
\* increasing and free of duplicates, also for archives whose markers are
\* duplicated or not monotonic in walk order.
C4_AxisStrictlyIncreasing ==
    (last.method \in WalkMethods /\ last.outcome = "ok") => Ascending(totalTime[1])

\* C5: in fetchNodalAverage and fetchElementAverage an entity of the resolved
\* set without any raw sample in a processed frame aborts the fetch: the fetch
\* does not complete normally and no value with a sample count of 0 is stored.
SamplesOf(frame, label) ==
    IF last.method = "fetchElementAverage"
    THEN SamplesAtElement(frame, label) ELSE SamplesAtNode(frame, label)

C5_MissingSampleAborts ==
    (last.method \in {"fetchNodalAverage", "fetchElementAverage"}
         /\ last.outcome = "ok") =>
        /\ \A i \in 1..Len(totalTime[1]) : \A k \in 1..Len(OutputLabels) :
               SamplesOf(FirstFrameAt(totalTime[1][i]), OutputLabels[k]) # {}
        /\ \A i \in 1..Len(resultData[1]) : \A k \in 1..Len(resultData[1][i]) :
               ~IsNaN(resultData[1][i][k])

\* C6: on every exit path of every fetch method the archive handle the call
\* opened is closed when control is back at the caller.
C6_HandleClosedOnEveryExit ==
    /\ nOpen = 0
    /\ last.opened => last.closed

\* C7: an unsupported dataName of an IntPtVariable or ElementVariable fails
\* the fetch before the archive is opened or read: no openOdb call and no set
\* lookup in that request.
C7_UnsupportedBeforeArchive ==
    last.outcome = "Unsupported" => ~last.opened /\ ~last.setLookup

\* C8: for every variable kind the storage key of a dataName outside
\* {PEEQ, MISES, PRESS, INV3, COORD, U, RF, EVOL} fails (unsupported quantity);
\* PEEQ -> ('PEEQ','data'), MISES -> ('S','mises'), PRESS -> ('S','press'),
\* INV3 -> ('S','inv3'), EVOL -> 'EVOL', nodal names map to themselves.
SupportedNames == {"PEEQ", "MISES", "PRESS", "INV3", "COORD", "U", "RF", "EVOL"}

C8_KeyMapping ==
    /\ dataName \notin SupportedNames => keyName = None
    /\ (kind = "IntPt" /\ dataName = "PEEQ") =>
           keyName = Some("PEEQ") /\ abqAttrib = Some("data")
    /\ (kind = "IntPt" /\ dataName = "MISES") =>
           keyName = Some("S") /\ abqAttrib = Some("mises")
    /\ (kind = "IntPt" /\ dataName = "PRESS") =>
           keyName = Some("S") /\ abqAttrib = Some("press")
    /\ (kind = "IntPt" /\ dataName = "INV3") =>
           keyName = Some("S") /\ abqAttrib = Some("inv3")
    /\ (kind = "Element" /\ dataName = "EVOL") => keyName = Some("EVOL")
    /\ (kind = "Nodal" /\ dataName \in {"COORD", "U", "RF"}) =>
           keyName = Some(dataName)

\* C9: a fetch whose (upper-cased) set name is not among the assembly level
\* sets of its set type fails, with the archive handle closed before the error
\* reaches the caller and with no result attribute of the object modified.
SetTypeOf(method) ==
    IF method \in {"fetchNodalAverage", "fetchNodalOutput"} THEN "NODE" ELSE "ELEMENT"

SetExists(setType) ==
    setName \in DOMAIN (IF setType = "NODE" THEN nodeSets ELSE elementSets)

C9_SetNotFoundClosesAndKeeps ==
    [][(last'.method \in AllFetchMethods /\ ~SetExists(SetTypeOf(last'.method))) =>
          /\ last'.outcome = "SetNotFound"
          /\ last'.opened /\ last'.closed
          /\ nOpen' = nOpen
          /\ UNCHANGED <<results, componentLabels, methodFlag>>]_vars

C9_Witness ==
    /\ last.method = "fetchElementAverage"
    /\ last.outcome = "SetNotFound"
    /\ setName = "NSET"
    /\ resultData # None
    /\ nOpen = 0

\* C10: a fetch whose key is absent from the fieldOutputs of the last frame of
\* the last step fails before any walk over the steps and frames (neither
\* _numframes nor the aggregation loop runs), with the archive handle closed.
C10_KeyProbeFailsBeforeWalk ==
    (/\ last.method \in AllFetchMethods
     /\ SetExists(SetTypeOf(last.method))
     /\ keyName # None
     /\ keyName[1] \notin LastFrameKeys) =>
        /\ last.outcome = "KeyNotDefined"
        /\ last.opened /\ last.closed
        /\ last.numframes = None
        /\ last.visited = 0

C10_Witness ==
    /\ last.method = "fetchNodalAverage"
    /\ last.outcome = "KeyNotDefined"
    /\ last.probed /\ last.closed
    /\ steps = NoPeeqSteps
    /\ nOpen = 0
\* C11: after construction and after any sequence of assignments to dataName
\* and setName the stored names are upper-case, and spellings that differ only
\* in letter case are stored as the same name, so the set lookup and the
\* quantity mapping cannot tell them apart.
UpperCaseNames ==
    {"PEEQ", "MISES", "PRESS", "INV3", "U", "EVOL", "FOO",
     "NSET", "ESET", "PART", "NOSET"}

\* the spellings in use, grouped by their letters
Spellings ==
    {{"PEEQ", "peeq"}, {"MISES", "Mises"}, {"U", "u"},
     {"NSET", "nset"}, {"ESET", "Eset"}, {"PART", "part"}}

CaseVariants(s) == UNION {V \in Spellings : s \in V} \cup {s}

C11_StoredNamesUpperCase ==
    /\ dataName \in UpperCaseNames
    /\ setName \in UpperCaseNames
    /\ last.method = "dataName" =>
           \A v \in CaseVariants(last.arg[1]) : upper(v) = dataName
    /\ last.method = "setName" =>
           \A v \in CaseVariants(last.arg[1]) : upper(v) = setName

C11_Witness ==
    /\ last.method = "setName"
    /\ last.arg = Some("nset")
    /\ setName = "NSET"
    /\ dataName = "MISES"
    /\ resultData = None

\* C12: in fetchNodalOutput, sumNodalOutput and avgNodalOutput the value stored
\* for component c of an entry depends only on the component c of the raw
\* samples: fetchNodalOutput stores the raw component c of the node, and a sum
\* or average computed from data that agree on component c and differ in any
\* way on the other components is the same.
ComponentOf(frame, n, c) == nodal[c] + n + frame.ord

\* the rows that agree with row on component c
Alternatives(row, c) ==
    {[n \in 1..Len(row) |->
         [j \in 1..Len(row[n]) |-> IF j = c THEN row[n][c] ELSE x[n]]] :
     x \in [1..Len(row) -> {Float(0), Float(7)}]}

AggregationMethods == {"sumNodalOutput", "avgNodalOutput"}

AggregateOf(method, row, c) ==
    IF method = "sumNodalOutput"
    THEN SumNodes(row, c, Len(row)) ELSE MeanNodes(row, c)

C12_ComponentsIndependent ==
    [][/\ (last'.method = "fetchNodalOutput" /\ last'.outcome = "ok") =>
            \A i \in 1..Len(totalTime'[1]) : \A p \in 1..Len(nodeLabels'[1]) :
                \A c \in 1..Len(Components) :
                    resultData'[1][i][p][c] =
                        Float(ComponentOf(FirstFrameAt(totalTime'[1][i]),
                                          nodeLabels'[1][p], c))
       /\ (last'.method \in AggregationMethods /\ last'.outcome = "ok") =>
            \A f \in 1..Len(totalTime[1]) : \A c \in 1..Len(componentLabels[1]) :
                /\ Len(resultData'[1][f]) = 1
                /\ \A alt \in Alternatives(resultData[1][f], c) :
                       resultData'[1][f][1][c] = AggregateOf(last'.method, alt, c)
      ]_vars

C12_Witness ==
    /\ last.method = "sumNodalOutput" /\ last.outcome = "ok"
    /\ nodal = <<0, 1>>
    /\ nodeSets[setName] = <<3, 1, 2>>
    /\ componentLabels = Some(<< <<"summed", "U1">>, <<"summed", "U2">> >>)
    /\ resultData[1][1] = << <<Float(6), Float(9)>> >>

\* C13: from the same fetched data with n nodes, for every frame and every
\* component the result of sumNodalOutput divided by n is the result of
\* avgNodalOutput; both results have exactly one entity column.
C13_SumOverCountIsMean ==
    [][(last'.method \in AggregationMethods /\ last'.outcome = "ok") =>
          \A f \in 1..Len(totalTime[1]) : \A c \in 1..Len(componentLabels[1]) :
              /\ Len(resultData'[1]) = Len(totalTime[1])
              /\ Len(resultData'[1][f]) = 1
              /\ nodeLabels' = Some(<<-1>>)
              /\ last'.method = "sumNodalOutput" =>
                     FloatOver(resultData'[1][f][1][c], Len(nodeLabels[1]))
                         = MeanNodes(resultData[1][f], c)
              /\ last'.method = "avgNodalOutput" =>
                     resultData'[1][f][1][c]
                         = FloatOver(SumNodes(resultData[1][f], c, Len(nodeLabels[1])),
                                     Len(nodeLabels[1]))
      ]_vars

C13_Witness ==
    /\ last.method = "avgNodalOutput" /\ last.outcome = "ok"
    /\ nodal = <<0, 1>>
    /\ nodeSets[setName] = <<3, 2>>
    /\ componentLabels = Some(<< <<"average", "U1">>, <<"average", "U2">> >>)
    /\ resultData[1][1] = << << <<5, 2>>, <<7, 2>> >> >>


\* ------------------------------------------------------------------ C14
\* saveCSV returned normally: every file it opened is written and closed
Exported == last.method = "saveCSV" /\ last.outcome = "ok"

\* the number of columns of an exported array
ColumnsOf(dataSet) == Len(dataSet[1])

ShapedFor(f, rows, n) ==
    /\ f.closed
    /\ Len(f.lines) = rows
    /\ Len(f.labels) = n
    /\ Len(f.line2) = n
    /\ \A i \in 1..Len(f.lines) : Len(f.lines[i].fields) = n

\* C14: every CSV written by _saveOdbFieldDataCSV has two header rows and
\* exactly len(totalTime) data rows, and the label row, the placeholder row
\* and every data row have one field for the marker plus one field per
\* resolved entity, that is per column of the exported array.
C14_CsvShape ==
    Exported =>
        \A k \in 1..Len(last.written) :
            ShapedFor(files[last.written[k]], Len(totalTime[1]),
                      ColumnsOf(Exports[k].dataSet))


\* ------------------------------------------------------------------ C15
\* the call just made raised
Failed(call) == call.outcome \notin {"ok", "none"}

\* C15: when a fetch or an export fails at any point, the working directory
\* is as it was before the call: no file written by the failing call exists,
\* complete or partial, and no earlier file of the same name is gone.
C15_NothingWrittenOnFailure ==
    [][Failed(last') => files' = files]_vars


\* ------------------------------------------------------------------ C16
\* the index of node n among the sorted labels of the resolved node set
PositionOf(n) == Cardinality({m \in Range(nodeSets[setName]) : m <= n})

\* C16: after fetchNodalOutput, for every recorded frame, every node of the
\* resolved set and every component c, resultData[frame, position(node), c]
\* is the raw component c of that node in that frame, unchanged, where
\* position(node) is the node's index among the sorted nodeLabels, whatever
\* the order in which the archive delivers the values.
C16_NodalPassThrough ==
    (last.method = "fetchNodalOutput" /\ last.outcome = "ok") =>
        /\ Ascending(nodeLabels[1])
        /\ \A i \in 1..Len(totalTime[1]) :
           \A n \in Range(nodeSets[setName]) :
               /\ nodeLabels[1][PositionOf(n)] = n
               /\ \A c \in 1..Len(Components) :
                      resultData[1][i][PositionOf(n)][c] =
                          Float(ComponentOf(FirstFrameAt(totalTime[1][i]), n, c))

\* the set lists node 3 first and the archive delivers the values in yet
\* another order; the columns follow the sorted labels 1, 2, 3
C16_Witness ==
    /\ last.method = "fetchNodalOutput" /\ last.outcome = "ok"
    /\ nodeSets[setName] = <<3, 1, 2>>
    /\ rev /\ rot = 1
    /\ nodal = <<0, 1>>
    /\ nodeLabels = Some(<<1, 2, 3>>)
    /\ \A c \in 1..Len(Components) :
           /\ resultData[1][1][1][c] = Float(resultData[1][1][3][c][1] - 2)
           /\ resultData[1][1][2][c] = Float(resultData[1][1][3][c][1] - 1)
    /\ resultData[1][1][3][2] = Float(resultData[1][1][3][1][1] + 1)


\* ------------------------------------------------------------------ C17
Setters == {"odbPath", "dataName", "setName"}

\* C17: after a successful assignment to odbPath, dataName or setName,
\* totalTime, nodeLabels, elementLabels, intPtLabels and resultData read as
\* None, and so does componentLabels of a NodalVariable.
C17_SetterClearsResults ==
    (last.method \in Setters /\ last.outcome = "ok") =>
        /\ totalTime = None
        /\ nodeLabels = None
        /\ elementLabels = None
        /\ intPtLabels = None
        /\ resultData = None
        /\ kind = "Nodal" => getComponentLabels = None


\* ------------------------------------------------------------------ C18
\* the text of a list of identifiers
Texts(ids) == [k \in 1..Len(ids) |-> str(ids[k])]

\* the most recent fetch produced one column per node
PerNode == methodFlag = Some("fetchNodalAverage")

HeadedBy(f, title, ids, n) ==
    /\ f.line1 = title
    /\ f.labels = Texts(ids)
    /\ Len(ids) = n

\* C18: after any sequence of successful fetches on one IntPtVariable and a
\* saveCSV, the first row of every file written is labelled "node" and lists
\* the sorted node identifiers when the most recent fetch produced per-node
\* data, and is labelled "element" and lists the element identifiers when it
\* produced per-element data; the identifiers are those of the most recent
\* fetch, one per column of the exported array.
C18_LabelsOfMostRecentFetch ==
    (Exported /\ kind = "IntPt") =>
        \A k \in 1..Len(last.written) :
            IF PerNode
            THEN HeadedBy(files[last.written[k]], "node (right):",
                          Sort(nodeSets[setName]), ColumnsOf(Exports[k].dataSet))
            ELSE HeadedBy(files[last.written[k]], "element (right):",
                          Sort(elementSets[setName]), ColumnsOf(Exports[k].dataSet))


\* ------------------------------------------------------------------ C19
\* the markers in the first column of a file, in row order
MarkersOf(f) == [i \in 1..Len(f.lines) |-> f.lines[i].time]

\* the markers frameValue + step index of the archive's frames
AllMarkers == {runCompletionOf(AllFrames[k]) : k \in 1..Len(AllFrames)}

\* C19: in the functions of odbFetchFieldOutput a frame whose marker
\* frameValue + step index is already recorded is skipped, so every table
\* written has exactly one row per distinct marker.
C19_OneRowPerDistinctMarker ==
    (last.method \in Extractors /\ last.outcome = "ok") =>
        \A k \in 1..Len(last.written) :
            /\ Len(files[last.written[k]].lines) = Cardinality(AllMarkers)
            /\ \A i, j \in 1..Len(files[last.written[k]].lines) :
                   MarkersOf(files[last.written[k]])[i] =
                       MarkersOf(files[last.written[k]])[j] => i = j


\* ------------------------------------------------------------------ C20
HandleMethods == {"fetchMesh", "fetchJintegral", "getJintegral"}

\* C20: InstanceMesh.fetchMesh, CrackVariable.fetchJintegral and
\* getJintegral have closed the archive they opened by the end of the call,
\* when the call completes and when it fails (undefined instance, missing
\* step or history region).
C20_ArchiveReleased ==
    last.method \in HandleMethods => (last.opened => last.closed) /\ nOpen = 0


\* ------------------------------------------------------------------ C21
\* the volume the archive stores for element e in its first frame
VolumeOf(e) == Float(WholeElementSample(e).data)

\* C21: after ElementVariable.fetchInitialElementVolume, elementLabels are
\* the ascending sort of the ids of the element set, resultData has exactly
\* one row (totalTime is (0,)), and resultData[0,k] is the volume of element
\* elementLabels[k], for every order in which the archive delivers the values.
C21_InitialVolumeSorted ==
    (last.method = "fetchInitialElementVolume" /\ last.outcome = "ok") =>
        /\ elementLabels = Some(Sort(elementSets[setName]))
        /\ totalTime = Some(<<0>>)
        /\ Len(resultData[1]) = 1
        /\ \A k \in 1..Len(elementLabels[1]) :
               resultData[1][1][k] = VolumeOf(elementLabels[1][k])


\* ------------------------------------------------------------------ C22
\* C22: in every class-based fetch the count returned by _numframes equals
\* the number of distinct markers recorded by the aggregation loop, the row
\* index len(totalTime)-1 is always within 0..numframes-1 (no IndexError),
\* and every preallocated row is written for exactly one frame, none being
\* left unwritten.
C22_RowsMatchMarkers ==
    last.method \in WalkMethods =>
        /\ last.outcome # "IndexError"
        /\ last.outcome = "ok" =>
               /\ last.numframes = Some(Len(totalTime[1]))
               /\ Len(resultData[1]) = Len(totalTime[1])
               /\ last.visited = Len(resultData[1])
               /\ Len(totalTime[1]) = Cardinality(Range(totalTime[1]))

C22_Witness ==
    /\ last.method = "fetchIntPtData" /\ last.outcome = "ok"
    /\ BoundaryDuplicate
    /\ last.numframes = Some(4)
    /\ Len(AllFrames) = 5
    /\ last.visited = 4


\* ------------------------------------------------------------------ C23
\* the value the archive stores at integration point ip of element e in a frame
StoredAtIntPt(frame, e, ip) ==
    Float(getattr(IntPtSample(<<e, ip>>, frame), abqAttrib[1]))

\* row (a row of resultData) holds the data of the given frame
RowIsFrame(row, frame) ==
    IF last.method = "fetchNodalAverage"
    THEN \A i \in 1..Len(nodeLabels[1]) :
             IsValueOf(row[i], frame, nodeLabels[1][i])
    ELSE \A ip \in 1..Len(row) : \A i \in 1..Len(elementLabels[1]) :
             row[ip][i] = StoredAtIntPt(frame, elementLabels[1][i], ip)

\* two frames of the archive share a marker and differ in their data
DuplicateDiffers ==
    \E j, k \in 1..Len(AllFrames) :
        /\ j < k
        /\ MarkerOf(AllFrames[j]) = MarkerOf(AllFrames[k])
        /\ AllFrames[j].ord # AllFrames[k].ord

\* C23: in the class-based fetch loops a frame whose marker is already in
\* totalTime is skipped entirely, so the row of a duplicated marker holds the
\* data of the first frame with that marker (and only as many frames are
\* stored as there are rows).
C23_FirstFrameKept ==
    (last.method \in {"fetchNodalAverage", "fetchIntPtData"} /\ last.outcome = "ok") =>
        /\ last.visited = Len(totalTime[1])
        /\ \A r \in 1..Len(totalTime[1]) :
               RowIsFrame(resultData[1][r], FirstFrameAt(totalTime[1][r]))

C23_Witness ==
    /\ last.method \in {"fetchNodalAverage", "fetchIntPtData"}
    /\ last.outcome = "ok"
    /\ DuplicateDiffers
    /\ last.visited < Len(AllFrames)


\* ------------------------------------------------------------------ C24
\* the unaveraged ELEMENT_NODAL samples of a frame with the given element
\* and node labels
CornerSamples(frame, e, n) ==
    {v \in Range(ElementNodalOnElements(frame, elementSets[setName])) :
        v.elementLabel = e /\ v.nodeLabel = n}

\* x is the value of the one sample of element e at node n
IsCornerValue(x, frame, e, n) ==
    /\ Cardinality(CornerSamples(frame, e, n)) = 1
    /\ \A v \in CornerSamples(frame, e, n) : x = Float(getattr(v, abqAttrib[1]))

\* a node shared by two elements of the set that report different values
SharedNodeDiffers(frame) ==
    \E n \in mesh.nodes : \E v, w \in Range(ElementNodalOnElements(frame, elementSets[setName])) :
        /\ v.nodeLabel = n /\ w.nodeLabel = n
        /\ v.elementLabel # w.elementLabel
        /\ getattr(v, abqAttrib[1]) # getattr(w, abqAttrib[1])

\* C24: after fetchNodalExtrap, elementLabels are sorted ascending,
\* nodeLabels[e,:] is the connectivity of element elementLabels[e], and
\* resultData[i,n,e] is the unaveraged ELEMENT_NODAL sample whose elementLabel
\* is elementLabels[e] and whose nodeLabel is nodeLabels[e,n]; no value of
\* another element sharing the node is mixed in.
C24_ExtrapByElementAndNode ==
    (last.method = "fetchNodalExtrap" /\ last.outcome = "ok") =>
        /\ Ascending(elementLabels[1])
        /\ Range(elementLabels[1]) = Range(elementSets[setName])
        /\ \A e \in 1..Len(elementLabels[1]) :
               /\ nodeLabels[1][e] = mesh.conn[elementLabels[1][e]]
               /\ \A i \in 1..Len(totalTime[1]) : \A n \in 1..Len(nodeLabels[1][e]) :
                      IsCornerValue(resultData[1][i][n][e],
                                    FirstFrameAt(totalTime[1][i]),
                                    elementLabels[1][e], nodeLabels[1][e][n])

C24_Witness ==
    /\ last.method = "fetchNodalExtrap" /\ last.outcome = "ok"
    /\ rev /\ rot = 1
    /\ SharedNodeDiffers(AllFrames[1])
    /\ elementLabels = Some(<<1, 2>>)


\* ------------------------------------------------------------------ C25
\* C25: after fetchElementAverage, resultData[frame, position(element)] is
\* the arithmetic mean of all INTEGRATION_POINT samples of that element in
\* the frame, elementLabels are sorted ascending, and the result does not
\* depend on the order in which the samples arrive.
C25_ElementAverageIsMean ==
    (last.method = "fetchElementAverage" /\ last.outcome = "ok") =>
        /\ Ascending(elementLabels[1])
        /\ Range(elementLabels[1]) = Range(elementSets[setName])
        /\ \A r \in 1..Len(totalTime[1]) : \A i \in 1..Len(elementLabels[1]) :
               IsMeanOf(resultData[1][r][i],
                        SamplesAtElement(FirstFrameAt(totalTime[1][r]),
                                         elementLabels[1][i]))

C25_Witness ==
    /\ last.method = "fetchElementAverage" /\ last.outcome = "ok"
    /\ rev /\ rot = 0
    /\ base = ExampleBase
    /\ elementLabels = Some(<<1, 2>>)
    /\ resultData[1][1][1] # resultData[1][1][2]


\* ------------------------------------------------------------------ C26
\* the per-node values fetchNodalOutput stores for a frame
FetchedRow(frame, labels) ==
    [p \in 1..Len(labels) |->
        [c \in 1..Len(Components) |-> Float(ComponentOf(frame, labels[p], c))]]

\* the two reductions have both been applied, one after the other, since
\* the last fetch
BothReductions ==
    /\ componentLabels # None
    /\ Len(componentLabels[1][1]) = 3
    /\ componentLabels[1][1][1] # componentLabels[1][1][2]

\* C26: on a NodalVariable after fetchNodalOutput the reductions reduce over
\* the originally fetched per-node values: avgNodalOutput after
\* sumNodalOutput gives the resultData of avgNodalOutput alone, and
\* sumNodalOutput after avgNodalOutput gives that of sumNodalOutput alone.
C26_ReductionsOverFetched ==
    (last.method \in AggregationMethods /\ last.outcome = "ok" /\ BothReductions) =>
        \A f \in 1..Len(totalTime[1]) : \A c \in 1..Len(Components) :
            resultData[1][f][1][c] =
                AggregateOf(last.method,
                            FetchedRow(FirstFrameAt(totalTime[1][f]),
                                       Sort(nodeSets[setName])), c)


\* ------------------------------------------------------------------ C27
\* C27: if a fetch method raises (failed set lookup, failed key probe,
\* unsupported dataName, or an error during the frame walk), totalTime,
\* nodeLabels, elementLabels, intPtLabels and resultData are exactly what
\* they were before the call.
C27_FailedFetchKeepsResults ==
    [][(last'.method \in AllFetchMethods /\ last'.outcome # "ok") =>
           results' = results]_vars

\* a walk that fails on an object holding the results of an earlier fetch
C27_Witness ==
    /\ last.method = "fetchNodalExtrap"
    /\ last.outcome = "IndexError"
    /\ last.probed
    /\ nodeLabels = Some(<<1, 2>>)
    /\ resultData # None
    /\ elementLabels = None
    /\ methodFlag = Some("fetchNodalAverage")


\* ------------------------------------------------------------------ C28
NoResults == results = <<None, None, None, None, None>>

\* C28: for IntPtVariable, NodalVariable and ElementVariable, saveCSV on an
\* object that holds no results (before any successful fetch, or after a
\* setter reset following any fetches) raises, and neither deletes an
\* existing file nor creates or writes any CSV file.
C28_NoResultsNoFiles ==
    [][(last'.method = "saveCSV" /\ NoResults) =>
           /\ last'.outcome \notin {"ok", "IOError"}
           /\ last'.written = <<>>
           /\ files' = files]_vars

\* an export refused after a reset, beside an earlier export of the same name
C28_Witness ==
    /\ last.method = "saveCSV"
    /\ last.outcome = "TypeError"
    /\ kind = "IntPt"
    /\ methodFlag = Some("fetchIntPtData")
    /\ NoResults
    /\ saveFileName(<<"PEEQ", "_IP", "1">>) \in DOMAIN files


\* ------------------------------------------------------------------ C29
\* the node and element labels of the instance are positive integers
\* (distinct, being the elements of a set and the keys of a function)
PositiveLabels ==
    /\ \A n \in mesh.nodes : n > 0
    /\ \A e \in DOMAIN mesh.conn : e > 0

\* C29: in fetchNodalAverage, fetchNodalExtrap and fetchIntPtData, for a
\* single instance whose node and element labels are distinct positive
\* integers, every index label-1 into the per-frame temporary arrays sized by
\* i_numnod or i_numele lies within the array, for every raw sample and every
\* label of the resolved set: no access raises IndexError.
C29_TempIndexWithinBounds ==
    (/\ last.method \in {"fetchNodalAverage", "fetchNodalExtrap", "fetchIntPtData"}
     /\ PositiveLabels)
        => last.outcome # "IndexError"


\* ------------------------------------------------------------------ C30
\* column k of the table is headed by the contour of an output of the crack
\* and holds that output's J-integral values
ColumnIsContour(f, k, out) ==
    \A i \in 1..Len(f.lines) : f.lines[i].fields[k] = str(Float(out.data[i][2]))

HeadersMatch(f, crackName) ==
    \A k \in 1..Len(f.labels) : \A j \in 1..Len(history.outputs) :
        (/\ OfCrack(history.outputs[j], crackName)
         /\ f.line2[k] = IntStr(history.outputs[j].contour)
         /\ f.labels[k] = <<history.outputs[j].label, IntStr(history.outputs[j].contour)>>)
            => ColumnIsContour(f, k, history.outputs[j])

\* C30: after CrackVariable.fetchJintegral and saveCSV, for every order in
\* which the history outputs of the crack are iterated, contourLabels[k] and
\* contourNumbers[k] name the contour whose J-integral values are stored in
\* resultData[:, k], so every column header of the CSV matches the data
\* beneath it; getJintegral produces the same pairing.
C30_ContourHeadersMatchData ==
    (last.method \in {"CrackVariable.saveCSV", "getJintegral"} /\ last.outcome = "ok") =>
        HeadersMatch(files[last.written[1]], last.written[1].title[2])

====
